---- MODULE Spec2Model ----
(***************************************************************************)
(* Model of src/app.py: the fallback resolution pipeline of the YouTube    *)
(* video processor (proxy candidates, strategy chain, stream selection,    *)
(* download orchestration and the two POST endpoints).                     *)
(*                                                                         *)
(* Python values are represented as follows.  A str is a TLA+ string; the  *)
(* text of an environment variable, which the code strips and inspects, is *)
(* a sequence of tokens whose concatenation is the text.  None is the      *)
(* string "None", which is no value of any text of the model.  A dict is a *)
(* function from its keys; a list is a sequence.                           *)
(***************************************************************************)
EXTENDS Integers, Sequences, FiniteSets, TLC

VARIABLES
    FORCED_PROXY,                \* app.py:59
    STATIC_PROXY_POOL,           \* app.py:60
    ALLOW_DIRECT_CONNECTION,     \* app.py:65
    ENABLE_FREE_PROXY_FALLBACK,  \* app.py:66
    pc,                          \* position of the running handler
    caller,                      \* who called _build_proxy_candidates
    include_direct,              \* argument of _build_proxy_candidates
    candidates,                  \* local `candidates` of _build_proxy_candidates
    source_idx,                  \* index into FREE_PROXY_SOURCES in get_free_proxy
    proxy_candidates,            \* the list returned by _build_proxy_candidates
    netCalls,                    \* outbound network calls made for the current call
    request,                     \* endpoint and JSON body of the request being served
    proxy_idx,                   \* position of the loop over proxy_candidates
    variant_idx,                 \* position of the loop over strategies / instances
    instances,                   \* the shuffled instance list of the running fetcher
    attempts,                    \* the (strategy, proxy) attempts made, in order
    last_outcome,                \* how the latest call of a collaborator ended
    metadata_context,            \* what get_full_video_metadata returned
    raised_from,                 \* the function an exception propagated out of
    response,                    \* the HTTP response of the handler
    temp_dir,                    \* whether the yt_dl_<uuid> directory of the call exists
    fs,                          \* the files in that directory, with their sizes
    file_path,                   \* what download_video returned
    selections,                  \* what the calls of _select_mirror_stream returned
    download_attempts,           \* the download paths tried, in order
    COOKIE_FILE_CACHE,           \* _COOKIE_FILE_CACHE, app.py:130
    environ,                     \* os.environ, the variables read after import
    threads,                     \* the request threads: position and locals of each
    cookie_returns,              \* what the calls of _resolve_cookie_file returned
    cookie_lookups,              \* resolutions that read the environment so far
    dirs,                        \* the directories under tempfile.gettempdir()
    uuids                        \* how many uuid4() values were drawn so far

\* the state shared by concurrent requests, left alone by the pipeline of a
\* single request
threadVars == <<COOKIE_FILE_CACHE, environ, threads, cookie_returns, cookie_lookups,
                dirs, uuids>>

\* the module-level state that no step of a single request's pipeline changes
proxyVars == <<FORCED_PROXY, STATIC_PROXY_POOL, ALLOW_DIRECT_CONNECTION,
               ENABLE_FREE_PROXY_FALLBACK, threadVars>>

vars == <<FORCED_PROXY, STATIC_PROXY_POOL, ALLOW_DIRECT_CONNECTION,
          ENABLE_FREE_PROXY_FALLBACK, COOKIE_FILE_CACHE, environ, threads,
          cookie_returns, cookie_lookups, dirs, uuids,
          pc, caller, include_direct, candidates,
          source_idx, proxy_candidates, netCalls, request, proxy_idx,
          variant_idx, instances, attempts, last_outcome, metadata_context,
          raised_from, response, temp_dir, fs, file_path, selections, download_attempts>>

dlVars == <<temp_dir, fs, file_path, selections, download_attempts>>

\* the configuration, and the state of a single request's pipeline without
\* the file system
configVars == <<FORCED_PROXY, STATIC_PROXY_POOL, ALLOW_DIRECT_CONNECTION,
                ENABLE_FREE_PROXY_FALLBACK>>
pipelineVars == <<pc, caller, include_direct, candidates, source_idx, proxy_candidates,
                  netCalls, request, proxy_idx, variant_idx, instances, attempts,
                  last_outcome, metadata_context, raised_from, response, temp_dir,
                  file_path, selections, download_attempts>>
chainVars == <<request, proxy_idx, variant_idx, instances, attempts,
               last_outcome, metadata_context, raised_from, response, dlVars>>

None == "None"

(***************************************************************************)
(* Bounds of the model.                                                    *)
(***************************************************************************)
MaxPoolEntries == 2     \* entries of YTDL_PROXY_POOL after split(',')
NumInvidious == 2       \* instances of INVIDIOUS_INSTANCES that are modelled
NumPiped == 2           \* instances of PIPED_API_INSTANCES that are modelled
MaxStreams == 2         \* streams in one list of a stream bag
MaxSelectCalls == 2     \* repeated calls of _select_mirror_stream on one record
NumThreads == 2         \* request threads of the server that are modelled
MaxCookieCalls == 2     \* calls of _resolve_cookie_file by one thread

(***************************************************************************)
(* Texts                                                                   *)
(***************************************************************************)
Whitespace == " "
SchemeTokens == {"http://", "https://"}

\* str.join of the tokens of a text
RECURSIVE Text(_)
Text(toks) == IF toks = <<>> THEN "" ELSE Head(toks) \o Text(Tail(toks))

\* str.strip(): drop leading and trailing whitespace
RECURSIVE lstrip(_)
lstrip(toks) ==
    IF toks # <<>> /\ Head(toks) = Whitespace THEN lstrip(Tail(toks)) ELSE toks

RECURSIVE rstrip(_)
rstrip(toks) ==
    IF toks # <<>> /\ toks[Len(toks)] = Whitespace
    THEN rstrip(SubSeq(toks, 1, Len(toks) - 1))
    ELSE toks

strip(toks) == rstrip(lstrip(toks))

\* "://" in proxy
HasScheme(toks) == \E i \in 1..Len(toks) : toks[i] \in SchemeTokens

\* Python truthiness of an Optional[str]
Truthy(s) == s # None /\ s # ""

\* a or b, on environment texts (an unset variable and an empty one are
\* both falsy, and the code treats them alike)
OrText(a, b) == IF a # <<>> THEN a ELSE b

\* a file of the temporary directory: stem and suffix; NoPath is None
Path(stem, ext) == [stem |-> stem, ext |-> ext]
NoPath == Path("", "")

\* no request thread is running, nothing was resolved or created
InitThreads ==
    /\ COOKIE_FILE_CACHE = NoPath
    /\ environ = <<>>
    /\ threads = <<>>
    /\ cookie_returns = <<>>
    /\ cookie_lookups = 0
    /\ dirs = {}
    /\ uuids = 0

\* texts an operator can put in YTDL_PROXY, PROXY_URL or an entry of
\* YTDL_PROXY_POOL (<<>> is the empty or unset text)
RawProxyTexts ==
    { <<>>, <<" ">>, <<"h1">>, <<" ", "h1", " ">>, <<"http://", "h1">>,
      <<"https://", "h1">>, <<"h2">> }

RECURSIVE SeqsUpTo(_, _)
SeqsUpTo(S, n) ==
    IF n = 0 THEN { <<>> }
    ELSE LET shorter == SeqsUpTo(S, n - 1)
         IN  shorter \cup { Append(s, x) : s \in { t \in shorter : Len(t) = n - 1 }, x \in S }

\* os.getenv('YTDL_PROXY_POOL', '').split(','): never the empty list
RawPools == SeqsUpTo(RawProxyTexts, MaxPoolEntries) \ { <<>> }

(***************************************************************************)
(* app.py:47-56                                                            *)
(***************************************************************************)
normalize_proxy_url(proxy) ==
    IF proxy = <<>> THEN None
    ELSE LET stripped == strip(proxy)
         IN  IF stripped = <<>> THEN None
             ELSE IF ~HasScheme(stripped) THEN "http://" \o Text(stripped)
             ELSE Text(stripped)

\* app.py:60-64: the normalized entries of the pool that are truthy
RECURSIVE static_proxy_pool(_)
static_proxy_pool(entries) ==
    IF entries = <<>> THEN <<>>
    ELSE LET normalized == normalize_proxy_url(Head(entries))
         IN  IF Truthy(normalized)
             THEN <<normalized>> \o static_proxy_pool(Tail(entries))
             ELSE static_proxy_pool(Tail(entries))

(***************************************************************************)
(* _build_proxy_candidates, app.py:101-127                                 *)
(***************************************************************************)
\* app.py:121
proxy_key(proxy) == IF Truthy(proxy) THEN proxy ELSE "DIRECT"

\* the loop without the test of `seen`
filter_seen_keeps_all(cands, i, seen) == SubSeq(cands, i, Len(cands))

\* app.py:118-125, the loop over `candidates` from position i on
RECURSIVE filter_seen(_, _, _)
filter_seen(cands, i, seen) ==
    IF i > Len(cands) THEN <<>>
    ELSE IF proxy_key(cands[i]) \in seen
         THEN filter_seen(cands, i + 1, seen)
         ELSE <<cands[i]>> \o filter_seen(cands, i + 1, seen \cup {proxy_key(cands[i])})

\* the filtered list with the direct connection added as a last resort
filtered_or_direct_always(cands) ==
    LET filtered == filter_seen(cands, 1, {})
    IN  IF \E i \in 1..Len(filtered) : filtered[i] = None THEN filtered
        ELSE Append(filtered, None)

\* app.py:118-127
filtered_or_direct(cands) ==
    LET filtered == filter_seen(cands, 1, {})
    IN  IF filtered # <<>> THEN filtered ELSE <<None>>

\* the candidates with the direct connection put before the static pool
static_candidates_direct_first(forced, pool, incl, allow) ==
    (IF Truthy(forced) THEN <<forced>> ELSE <<>>)
    \o (IF incl /\ allow THEN <<None>> ELSE <<>>)
    \o pool

\* app.py:103-111: forced proxy, static pool, direct
static_candidates(forced, pool, incl, allow) ==
    (IF Truthy(forced) THEN <<forced>> ELSE <<>>)
    \o pool
    \o (IF incl /\ allow THEN <<None>> ELSE <<>>)

(***************************************************************************)
(* Dicts and values                                                        *)
(***************************************************************************)
\* None where a dict is expected, and the empty dict: both are falsy, and
\* the code tests such values by truthiness only
NoDict == <<>>

\* d.get(k, default)
Get(d, k, default) == IF k \in DOMAIN d THEN d[k] ELSE default

\* a field of a stream descriptor that may hold an int or a str: the str is
\* the sequence of its characters
PyInt(n) == [t |-> "int", v |-> n]
PyStr(chars) == [t |-> "str", v |-> chars]
PyNone == [t |-> "none", v |-> 0]

(***************************************************************************)
(* URLs, app.py:204-220 and 1116-1118                                      *)
(***************************************************************************)
\* a URL as urlparse splits it: netloc, the non-empty parts of the path and
\* the first value of the query parameter v (None when absent)
Url(netloc, path, v) == [netloc |-> netloc, path |-> path, v |-> v]

WatchUrl == Url("www.youtube.com", <<"watch">>, "dQw4w9WgXcQ")
HomeUrl == Url("www.youtube.com", <<>>, None)
BareShortUrl == Url("youtu.be", <<>>, None)
MentionUrl == Url("example.com", <<"youtube.com">>, None)
OtherUrl == Url("example.com", <<"video">>, None)

\* app.py:1118: 'youtube.com' or 'youtu.be' occurs in the lowercased URL
validate_youtube_url(url) ==
    \/ url.netloc \in {"www.youtube.com", "youtu.be"}
    \/ \E i \in 1..Len(url.path) : url.path[i] \in {"youtube.com", "youtu.be"}

\* the path without its leading '/'
RECURSIVE PathText(_)
PathText(parts) ==
    IF parts = <<>> THEN ""
    ELSE IF Len(parts) = 1 THEN parts[1]
    ELSE parts[1] \o "/" \o PathText(Tail(parts))

\* app.py:204-220
extract_video_id(url) ==
    IF url.netloc = "www.youtube.com"            \* 'youtube' in parsed.netloc
    THEN IF url.v # None THEN url.v
         ELSE IF url.path # <<>> THEN url.path[Len(url.path)]
         ELSE None
    ELSE IF url.netloc = "youtu.be"              \* 'youtu.be' in parsed.netloc
    THEN PathText(url.path)                      \* parsed.path.lstrip('/')
    ELSE None

(***************************************************************************)
(* Characters, digits and int-or-str values                                *)
(***************************************************************************)
Digits == {"0", "1", "2", "3", "4", "5", "6", "7", "8", "9"}

\* ord() of the characters that occur in the model's strings
Ord(ch) ==
    CASE ch = "0" -> 48 [] ch = "1" -> 49 [] ch = "2" -> 50 [] ch = "3" -> 51
      [] ch = "4" -> 52 [] ch = "5" -> 53 [] ch = "6" -> 54 [] ch = "7" -> 55
      [] ch = "8" -> 56 [] ch = "9" -> 57 [] ch = "k" -> 107 [] ch = "p" -> 112
      [] OTHER -> 0

DigitValue(ch) == Ord(ch) - 48

\* ''.join(ch for ch in s if ch.isdigit())
RECURSIVE digits_of(_)
digits_of(chars) ==
    IF chars = <<>> THEN <<>>
    ELSE IF Head(chars) \in Digits THEN <<Head(chars)>> \o digits_of(Tail(chars))
    ELSE digits_of(Tail(chars))

\* int(s) for a string of digits; int('' or 0) is 0
RECURSIVE int_of(_)
int_of(chars) ==
    IF chars = <<>> THEN 0
    ELSE 10 * int_of(SubSeq(chars, 1, Len(chars) - 1)) + DigitValue(chars[Len(chars)])

\* str < str, lexicographic by code point
RECURSIVE str_less(_, _)
str_less(a, b) ==
    IF b = <<>> THEN FALSE
    ELSE IF a = <<>> THEN TRUE
    ELSE IF Ord(Head(a)) # Ord(Head(b)) THEN Ord(Head(a)) < Ord(Head(b))
    ELSE str_less(Tail(a), Tail(b))

\* truthiness of an int-or-str value
PyTruthy(x) ==
    \/ x.t = "int" /\ x.v # 0
    \/ x.t = "str" /\ x.v # <<>>

\* a or b
PyOr(a, b) == IF PyTruthy(a) THEN a ELSE b

(***************************************************************************)
(* Dates and durations, app.py:230-262, 277-280, 327-330, 397-401          *)
(***************************************************************************)
\* A str is the sequence of its characters, a date-or-number field of a
\* response is a PyStr, a PyInt or PyNone (also when the key is missing).

\* s.isdigit(): not empty, and every character is a digit
isdigit(chars) == chars # <<>> /\ \A k \in 1..Len(chars) : chars[k] \in Digits

\* s.replace(old, new), old a character
RECURSIVE replace(_, _, _)
replace(chars, old, new) ==
    IF chars = <<>> THEN <<>>
    ELSE (IF Head(chars) = old THEN new ELSE <<Head(chars)>>)
         \o replace(Tail(chars), old, new)

\* s.split(sep), sep a character
RECURSIVE split(_, _)
split(chars, sep) ==
    IF \A k \in 1..Len(chars) : chars[k] # sep THEN <<chars>>
    ELSE LET k == CHOOSE i \in 1..Len(chars) :
                     chars[i] = sep /\ \A j \in 1..(i - 1) : chars[j] # sep
         IN  <<SubSeq(chars, 1, k - 1)>> \o split(SubSeq(chars, k + 1, Len(chars)), sep)

\* s.zfill(width), s without sign
RECURSIVE zfill(_, _)
zfill(chars, width) ==
    IF Len(chars) >= width THEN chars ELSE zfill(<<"0">> \o chars, width)

\* str(n), n >= 0
RECURSIVE str_of(_)
str_of(n) ==
    LET last == CHOOSE ch \in Digits : DigitValue(ch) = n % 10
    IN  IF n < 10 THEN <<last>> ELSE str_of(n \div 10) \o <<last>>

\* a datetime, of which only the date is read; ok is FALSE where the
\* constructor raised
Date(y, m, d) == [ok |-> TRUE, y |-> y, m |-> m, d |-> d]
NoDate == [ok |-> FALSE, y |-> 0, m |-> 0, d |-> 0]

\* datetime.fromisoformat(s): YYYY-MM-DD, alone or followed by one
\* separator character and HH, HH:MM or HH:MM:SS, with or without an
\* offset +HH:MM or -HH:MM; ValueError otherwise, also for a month, day or
\* time out of range
fromisoformat(chars) ==
    LET shaped(part, pattern) ==
            /\ Len(part) = Len(pattern)
            /\ \A k \in 1..Len(part) :
                 IF pattern[k] = "d" THEN part[k] \in Digits ELSE part[k] = pattern[k]
        num(from, to) == int_of(SubSeq(chars, from, to))
        leap(y) == y % 4 = 0 /\ (y % 100 # 0 \/ y % 400 = 0)
        days_in_month(y, m) ==
            IF m = 2 THEN (IF leap(y) THEN 29 ELSE 28)
            ELSE IF m \in {4, 6, 9, 11} THEN 30 ELSE 31
        rest == SubSeq(chars, 12, Len(chars))
        times == { <<"d", "d">>, <<"d", "d", ":", "d", "d">>,
                   <<"d", "d", ":", "d", "d", ":", "d", "d">> }
        offsets == { <<>> } \cup { <<sign, "d", "d", ":", "d", "d">> : sign \in {"+", "-"} }
        below(part, from, bound) == int_of(SubSeq(part, from, from + 1)) < bound
        time_ok ==
            \E t \in times, o \in offsets :
                /\ shaped(rest, t \o o)
                /\ below(rest, 1, 24)
                /\ Len(t) >= 5 => below(rest, 4, 60)
                /\ Len(t) = 8 => below(rest, 7, 60)
                /\ o # <<>> => /\ below(rest, Len(t) + 2, 24)
                               /\ below(rest, Len(t) + 5, 60)
    IN  IF Len(chars) < 10 THEN NoDate
        ELSE IF ~shaped(SubSeq(chars, 1, 10),
                        <<"d", "d", "d", "d", "-", "d", "d", "-", "d", "d">>) THEN NoDate
        ELSE IF num(1, 4) < 1 \/ num(6, 7) \notin 1..12 THEN NoDate
        ELSE IF num(9, 10) \notin 1..days_in_month(num(1, 4), num(6, 7)) THEN NoDate
        ELSE IF Len(chars) = 10 THEN Date(num(1, 4), num(6, 7), num(9, 10))
        ELSE IF Len(chars) >= 13 /\ time_ok THEN Date(num(1, 4), num(6, 7), num(9, 10))
        ELSE NoDate

\* datetime.utcfromtimestamp(n), n >= 0: the civil date of day n // 86400
\* after 1970-01-01
utcfromtimestamp(n) ==
    LET z == (n \div 86400) + 719468
        era == z \div 146097
        doe == z - era * 146097
        yoe == (doe - doe \div 1460 + doe \div 36524 - doe \div 146096) \div 365
        doy == doe - (365 * yoe + yoe \div 4 - yoe \div 100)
        mp == (5 * doy + 2) \div 153
        d == doy - (153 * mp + 2) \div 5 + 1
        m == IF mp < 10 THEN mp + 3 ELSE mp - 9
        y == yoe + era * 400 + (IF m <= 2 THEN 1 ELSE 0)
    IN  Date(y, m, d)

\* dt.strftime('%Y%m%d'), year of four digits
strftime_Ymd(dt) == zfill(str_of(dt.y), 4) \o zfill(str_of(dt.m), 2) \o zfill(str_of(dt.d), 2)

\* app.py:230-236
normalize_iso_date(value) ==
    IF ~PyTruthy(value) THEN PyNone
    ELSE IF value.t # "str"
    THEN PyNone      \* value.replace raises, and isinstance(value, str) is false
    ELSE LET parsed == fromisoformat(replace(value.v, "Z", <<"+", "0", "0", ":", "0", "0">>))
         IN  IF parsed.ok THEN PyStr(strftime_Ymd(parsed))
             ELSE PyStr(replace(value.v, "-", <<>>))

\* app.py:239-246; int(timestamp) raises ValueError for a str that is not
\* a number
format_upload_date(timestamp) ==
    IF ~PyTruthy(timestamp) THEN PyNone
    ELSE IF timestamp.t = "int" THEN PyStr(strftime_Ymd(utcfromtimestamp(timestamp.v)))
    ELSE IF isdigit(timestamp.v)
    THEN PyStr(strftime_Ymd(utcfromtimestamp(int_of(timestamp.v))))
    ELSE PyNone

\* app.py:249-262
normalize_simple_date(date_str) ==
    IF ~PyTruthy(date_str) \/ date_str.t # "str" THEN PyNone
    ELSE IF strip(date_str.v) = <<>> THEN PyNone
    ELSE LET clean == replace(strip(date_str.v), "/", <<"-">>)
             parts == split(clean, "-")
         IN  IF Len(parts) = 3 /\ \A k \in 1..3 : isdigit(parts[k])
             THEN PyStr(zfill(parts[1], 4) \o zfill(parts[2], 2) \o zfill(parts[3], 2))
             ELSE IF isdigit(clean) /\ Len(clean) = 8 THEN PyStr(clean)
             ELSE PyNone

\* the duration taken over as the response gives it
int_or_none_unconverted(value) == value

\* app.py:277-280, 327-330, 397-401: int(value), None where it raises
\* TypeError (None) or ValueError (a str that is not a number)
int_or_none(value) ==
    IF value.t = "int" THEN value
    ELSE IF value.t = "str" /\ isdigit(value.v) THEN PyInt(int_of(value.v))
    ELSE PyNone

(***************************************************************************)
(* Metadata records                                                        *)
(***************************************************************************)
\* keys of the metadata dicts that start with '__'
DunderKeys ==
    {"__proxy", "__strategy", "__source", "__mirror_streams", "__mirror_type",
     "__mirror_instance", "__piped_proxy_url", "__player_response"}

\* k.startswith('__')
startswith_dunder(k) == k \in DunderKeys

\* the projection without the filter on the keys
public_metadata_unfiltered(metadata) == metadata

\* app.py:223-227
public_metadata(metadata) ==
    IF metadata = NoDict THEN NoDict
    ELSE [k \in {key \in DOMAIN metadata : ~startswith_dunder(key)} |-> metadata[k]]

\* Of the public keys of a record, id, title, duration, upload_date,
\* release_date and (for Invidious, where the value is built from the
\* instance) uploader_url are modelled; the other public keys are copied
\* from the raw response in the same way.

\* f'yt_dlp_strategy_{i+1}', app.py:815
NumStrategies == 4
strategy_name(i) ==
    <<"yt_dlp_strategy_1", "yt_dlp_strategy_2", "yt_dlp_strategy_3",
      "yt_dlp_strategy_4">>[i]

\* app.py:781-816
engine_metadata(info, proxy, i) ==
    ("id" :> Get(info, "id", None)) @@
    ("title" :> Get(info, "title", None)) @@
    ("duration" :> Get(info, "duration", PyNone)) @@
    ("upload_date" :> Get(info, "upload_date", PyNone)) @@
    ("release_date" :> Get(info, "release_date", PyNone)) @@
    ("__proxy" :> proxy) @@
    ("__strategy" :> strategy_name(i))

\* app.py:385-450
map_player_response_metadata(player_data, proxy, strategy) ==
    IF player_data = NoDict THEN NoDict
    ELSE LET video_details == Get(player_data, "videoDetails", NoDict)
             microformat == Get(Get(player_data, "microformat", NoDict),
                                "playerMicroformatRenderer", NoDict)
             streaming == Get(player_data, "streamingData", NoDict)
             lengthSeconds == Get(video_details, "lengthSeconds", PyNone)
         IN  IF ~Truthy(Get(video_details, "title", None)) THEN NoDict
             ELSE ("id" :> Get(video_details, "videoId", None)) @@
                  ("title" :> Get(video_details, "title", None)) @@
                  ("duration" :> IF PyTruthy(lengthSeconds) THEN int_or_none(lengthSeconds)
                                 ELSE PyNone) @@
                  ("upload_date" :>
                      normalize_iso_date(PyOr(Get(microformat, "uploadDate", PyNone),
                                              Get(microformat, "publishDate", PyNone)))) @@
                  ("release_date" :> Get(microformat, "publishDate", PyNone)) @@
                  ("__proxy" :> proxy) @@
                  ("__strategy" :> strategy) @@
                  ("__source" :> strategy) @@
                  ("__mirror_streams" :>
                      [formatStreams |-> Get(streaming, "formats", <<>>),
                       adaptiveFormats |-> Get(streaming, "adaptiveFormats", <<>>)]) @@
                  ("__player_response" :> player_data)

\* app.py:265-322
map_invidious_metadata(data, instance) ==
    ("id" :> IF Truthy(Get(data, "videoId", None)) THEN data["videoId"]
             ELSE Get(data, "id", None)) @@
    ("title" :> Get(data, "title", None)) @@
    ("duration" :> IF Get(data, "lengthSeconds", PyNone) # PyNone
                   THEN int_or_none(data["lengthSeconds"]) ELSE PyNone) @@
    ("upload_date" :> format_upload_date(Get(data, "published", PyNone))) @@
    ("release_date" :> Get(data, "premiereTimestamp", PyNone)) @@
    ("uploader_url" :> IF Truthy(Get(data, "authorUrl", None))
                       THEN instance \o data["authorUrl"] ELSE None) @@
    ("__mirror_streams" :>
        [formatStreams |-> Get(data, "formatStreams", <<>>),
         adaptiveFormats |-> Get(data, "adaptiveFormats", <<>>)]) @@
    ("__mirror_type" :> "invidious")

\* app.py:481-484
invidious_metadata(data, instance, proxy) ==
    ("__source" :> "invidious") @@
    ("__proxy" :> proxy) @@
    ("__mirror_instance" :> instance) @@
    map_invidious_metadata(data, instance)

\* app.py:325-382
map_piped_metadata(data, instance) ==
    ("id" :> IF Truthy(Get(data, "id", None)) THEN data["id"]
             ELSE Get(data, "videoId", None)) @@
    ("title" :> Get(data, "title", None)) @@
    ("duration" :> IF Get(data, "duration", PyNone) # PyNone
                   THEN int_or_none(data["duration"]) ELSE PyNone) @@
    ("upload_date" :> PyOr(normalize_simple_date(Get(data, "uploadDate", PyNone)),
                           format_upload_date(Get(data, "uploadedTimestamp", PyNone)))) @@
    ("release_date" :> Get(data, "uploadedDate", PyNone)) @@
    ("__mirror_streams" :>
        [videoStreams |-> Get(data, "videoStreams", <<>>),
         audioStreams |-> Get(data, "audioStreams", <<>>),
         proxyUrl |-> Get(data, "proxyUrl", None)]) @@
    ("__mirror_type" :> "piped") @@
    ("__mirror_instance" :> instance) @@
    ("__source" :> "piped") @@
    ("__piped_proxy_url" :> Get(data, "proxyUrl", None))

(***************************************************************************)
(* _select_mirror_stream, app.py:847-928                                   *)
(***************************************************************************)
\* app.py:855-862
score_quality(label, fallback) ==
    IF label.t = "int" THEN label.v
    ELSE IF label.t = "str" /\ digits_of(label.v) # <<>> THEN int_of(digits_of(label.v))
    ELSE IF PyTruthy(fallback) THEN fallback.v ELSE 0

\* [s for s in lst if s.get('url')], app.py:865-866 and 899-900: the
\* positions of `lst` that are kept, in order
RECURSIVE with_url(_, _)
with_url(lst, i) ==
    IF i > Len(lst) THEN <<>>
    ELSE IF Truthy(Get(lst[i], "url", None)) THEN <<lst[i]>> \o with_url(lst, i + 1)
    ELSE with_url(lst, i + 1)

\* [s for s in lst if P(s)] for the predicates of app.py:890-922
RECURSIVE keep(_, _)
keep(lst, flags) ==
    IF lst = <<>> THEN <<>>
    ELSE IF Head(flags) THEN <<Head(lst)>> \o keep(Tail(lst), Tail(flags))
    ELSE keep(Tail(lst), Tail(flags))

\* the position list.sort(key=..., reverse=True) puts first among the
\* positions I: the sort is stable, so among equal keys the earliest
first_of_sort(keys, I) ==
    CHOOSE i \in I : \A j \in I : keys[j] < keys[i] \/ (keys[j] = keys[i] /\ i <= j)

RECURSIVE stable_order(_, _)
stable_order(keys, I) ==
    IF I = {} THEN <<>>
    ELSE LET i == first_of_sort(keys, I)
         IN  <<i>> \o stable_order(keys, I \ {i})

\* the orders a sort that is not stable could leave: any order in which the
\* keys do not increase
sort_orders_unstable(keys) ==
    { o \in [1..Len(keys) -> 1..Len(keys)] :
        /\ \A a, b \in 1..Len(keys) : a # b => o[a] # o[b]
        /\ \A a \in 1..Len(keys) - 1 : keys[o[a]] >= keys[o[a + 1]] }

\* the orders (as sequences of positions) that
\* list.sort(key=..., reverse=True) can leave a list with these keys in
sort_orders(keys) == { stable_order(keys, 1..Len(keys)) }

\* app.py:877-885
audio_score(stream) ==
    LET bitrate == PyOr(Get(stream, "bitrate", PyNone),
                        PyOr(Get(stream, "avgBitrate", PyNone),
                             Get(stream, "averageBitrate", PyNone)))
    IN  IF bitrate.t = "str" THEN int_of(digits_of(bitrate.v))
        ELSE IF PyTruthy(bitrate) THEN bitrate.v ELSE 0

\* app.py:868-871
clone(stream) == ("__mirror_type" :> "piped") @@ stream

\* app.py:902-907
quality_score(stream) ==
    LET label == PyOr(Get(stream, "qualityLabel", PyNone), Get(stream, "quality", PyNone))
        score == score_quality(label, PyNone)
        height == Get(stream, "height", PyNone)
    IN  IF score # 0 THEN score
        ELSE IF ~PyTruthy(height) THEN 0
        ELSE IF height.t = "str" THEN int_of(height.v)
        ELSE height.v

\* mime types of the model that contain 'audio' and not 'video'
AudioMimes == {"audio/mp4", "audio/webm"}

\* app.py:909-911
is_audio(stream) ==
    LET mime == IF Truthy(Get(stream, "mimeType", None)) THEN stream["mimeType"]
                ELSE IF Truthy(Get(stream, "type", None)) THEN stream["type"]
                ELSE ""
    IN  mime \in AudioMimes

\* app.py:919, the sort key
invidious_audio_key(stream) ==
    PyOr(Get(stream, "bitrate", PyInt(0)), Get(stream, "averageBitrate", PyInt(0)))

\* x < y between sort keys of one type
py_less(x, y) == IF x.t = "str" THEN str_less(x.v, y.v) ELSE x.v < y.v

\* sorting raises TypeError when a str key meets an int key (or None)
mixed_keys(keys) == \E i, j \in 1..Len(keys) : keys[i].t # keys[j].t

\* integer ranks that order the positions as the keys do
ranks(keys) ==
    [i \in 1..Len(keys) |-> Cardinality({j \in 1..Len(keys) : py_less(keys[j], keys[i])})]

Returned(stream) == [kind |-> "return", stream |-> stream]
ReturnedNone == [kind |-> "return", stream |-> NoDict]
Raised(line) == [kind |-> "raise", stream |-> NoDict, at |-> line]

\* the first element of each order in which the sort may leave lst
top_of(lst, keys) == { lst[o[1]] : o \in sort_orders(keys) }

\* _select_mirror_stream for a Piped bag, taking the best of all video
\* streams that have a URL, muxed or not
select_piped_any_video(streams, quality) ==
    LET video_streams == with_url(Get(streams, "videoStreams", <<>>), 1)
        audio_streams == with_url(Get(streams, "audioStreams", <<>>), 1)
        not_video_only == keep(video_streams,
            [i \in 1..Len(video_streams) |-> Get(video_streams[i], "videoOnly", FALSE) # TRUE])
        has_audio == keep(video_streams,
            [i \in 1..Len(video_streams) |-> Get(video_streams[i], "hasAudio", FALSE) = TRUE])
        combined == video_streams
        height(s) == LET h == Get(s, "height", PyNone) IN IF PyTruthy(h) THEN h.v ELSE 0
        \* the key is a pair (score, height); heights stay below 10000
        pair_key(s) == 10000 * score_quality(Get(s, "quality", PyNone), Get(s, "height", PyNone))
                       + height(s)
    IN  IF quality = "audio"
        THEN IF audio_streams = <<>> THEN {ReturnedNone}
             ELSE { Returned(clone(s)) :
                      s \in top_of(audio_streams,
                                   [i \in 1..Len(audio_streams) |-> audio_score(audio_streams[i])]) }
        ELSE IF combined = <<>> THEN {ReturnedNone}
             ELSE { Returned(clone(s)) :
                      s \in top_of(combined, [i \in 1..Len(combined) |-> pair_key(combined[i])]) }

\* app.py:864-896
select_piped(streams, quality) ==
    LET video_streams == with_url(Get(streams, "videoStreams", <<>>), 1)
        audio_streams == with_url(Get(streams, "audioStreams", <<>>), 1)
        not_video_only == keep(video_streams,
            [i \in 1..Len(video_streams) |-> Get(video_streams[i], "videoOnly", FALSE) # TRUE])
        has_audio == keep(video_streams,
            [i \in 1..Len(video_streams) |-> Get(video_streams[i], "hasAudio", FALSE) = TRUE])
        combined == IF not_video_only # <<>> THEN not_video_only ELSE has_audio
        height(s) == LET h == Get(s, "height", PyNone) IN IF PyTruthy(h) THEN h.v ELSE 0
        \* the key is a pair (score, height); heights stay below 10000
        pair_key(s) == 10000 * score_quality(Get(s, "quality", PyNone), Get(s, "height", PyNone))
                       + height(s)
    IN  IF quality = "audio"
        THEN IF audio_streams = <<>> THEN {ReturnedNone}
             ELSE { Returned(clone(s)) :
                      s \in top_of(audio_streams,
                                   [i \in 1..Len(audio_streams) |-> audio_score(audio_streams[i])]) }
        ELSE IF combined = <<>> THEN {ReturnedNone}
             ELSE { Returned(clone(s)) :
                      s \in top_of(combined, [i \in 1..Len(combined) |-> pair_key(combined[i])]) }

\* _select_mirror_stream for an Invidious bag, falling back to the adaptive
\* video streams when there is no progressive one
select_invidious_adaptive_fallback(streams, quality) ==
    LET format_streams == with_url(Get(streams, "formatStreams", <<>>), 1)
        adaptive_streams == with_url(Get(streams, "adaptiveFormats", <<>>), 1)
        adaptive_audio == keep(adaptive_streams,
            [i \in 1..Len(adaptive_streams) |-> is_audio(adaptive_streams[i])])
        format_audio == keep(format_streams,
            [i \in 1..Len(format_streams) |-> is_audio(format_streams[i])])
        audio_streams == IF adaptive_audio # <<>> THEN adaptive_audio ELSE format_audio
        audio_keys == [i \in 1..Len(audio_streams) |-> invidious_audio_key(audio_streams[i])]
        format_video == keep(format_streams,
            [i \in 1..Len(format_streams) |-> ~is_audio(format_streams[i])])
        adaptive_video == keep(adaptive_streams,
            [i \in 1..Len(adaptive_streams) |-> ~is_audio(adaptive_streams[i])])
        progressive == IF format_video # <<>> THEN format_video ELSE adaptive_video
    IN  IF quality = "audio"
        THEN IF audio_streams = <<>> THEN {ReturnedNone}
             ELSE IF mixed_keys(audio_keys) THEN {Raised(919)}
             ELSE { Returned(s) : s \in top_of(audio_streams, ranks(audio_keys)) }
        ELSE IF progressive = <<>> THEN {ReturnedNone}
             ELSE { Returned(s) :
                      s \in top_of(progressive,
                                   [i \in 1..Len(progressive) |-> quality_score(progressive[i])]) }

\* app.py:898-928
select_invidious(streams, quality) ==
    LET format_streams == with_url(Get(streams, "formatStreams", <<>>), 1)
        adaptive_streams == with_url(Get(streams, "adaptiveFormats", <<>>), 1)
        adaptive_audio == keep(adaptive_streams,
            [i \in 1..Len(adaptive_streams) |-> is_audio(adaptive_streams[i])])
        format_audio == keep(format_streams,
            [i \in 1..Len(format_streams) |-> is_audio(format_streams[i])])
        audio_streams == IF adaptive_audio # <<>> THEN adaptive_audio ELSE format_audio
        audio_keys == [i \in 1..Len(audio_streams) |-> invidious_audio_key(audio_streams[i])]
        progressive == keep(format_streams,
            [i \in 1..Len(format_streams) |-> ~is_audio(format_streams[i])])
    IN  IF quality = "audio"
        THEN IF audio_streams = <<>> THEN {ReturnedNone}
             ELSE IF mixed_keys(audio_keys) THEN {Raised(919)}
             ELSE { Returned(s) : s \in top_of(audio_streams, ranks(audio_keys)) }
        ELSE IF progressive = <<>> THEN {ReturnedNone}
             ELSE { Returned(s) :
                      s \in top_of(progressive,
                                   [i \in 1..Len(progressive) |-> quality_score(progressive[i])]) }

\* app.py:847-928: the outcomes of one call, each what the call returns
\* (NoDict for None) or the line at which it raises
select_mirror_stream(ctx, quality) ==
    IF ctx = NoDict THEN {ReturnedNone}
    ELSE LET streams == Get(ctx, "__mirror_streams", NoDict)
             mirror_type ==
                 IF Truthy(Get(ctx, "__mirror_type", None))
                 THEN ctx["__mirror_type"]
                 ELSE IF "videoStreams" \in DOMAIN streams THEN "piped" ELSE "invidious"
         IN  IF mirror_type = "piped" THEN select_piped(streams, quality)
             ELSE select_invidious(streams, quality)

\* the stream bag held by the record after a call of _select_mirror_stream:
\* every sort of the function (app.py:887, 895, 919, 927) acts on a list
\* built by a comprehension (app.py:865-866, 890-892, 899-900, 914-922),
\* never on a list of the record
mirror_streams_after_select(ctx, quality) ==
    Get(ctx, "__mirror_streams", NoDict)

\* len(FREE_PROXY_SOURCES), app.py:29-34
NumFreeProxySources == 4

\* app.py:172,182: 'https' in source_url holds for each of the four
\* configured sources, whose URLs all begin with "https://"
free_proxy_scheme(i) == IF i \in 1..NumFreeProxySources THEN "https://" ELSE "http://"

\* stripped, non-comment lines a proxy list can offer (app.py:166-168)
FreeProxyLines == {"h1"}

\* the outcome of one call of a collaborator: it raises at a line of the
\* caller, or answers with a status other than 200, or yields data
RaiseAt(line) == [kind |-> "raise", at |-> line, data |-> NoDict]
Non200 == [kind |-> "status", at |-> 0, data |-> NoDict]
Data(d) == [kind |-> "data", at |-> 0, data |-> d]

\* what is remembered of an outcome
Outcome(out) == [kind |-> out.kind, at |-> out.at]
NoOutcome == [kind |-> "none", at |-> 0]

\* the try of fetch_metadata_from_invidious closed right after the GET
TryBodies_invidious_get_only ==
    { <<164, 182>>, <<175, 177>>, <<472, 478>>, <<509, 522>>, <<558, 573>>,
      <<615, 633>>, <<758, 817>>, <<975, 989>>, <<1000, 1019>>, <<1069, 1078>> }

\* get_free_proxy without its try around the fetch of a source
TryBodies_free_proxy_unguarded ==
    { <<175, 177>>, <<472, 487>>, <<509, 522>>, <<558, 573>>, <<615, 633>>,
      <<758, 817>>, <<975, 989>>, <<1000, 1019>>, <<1069, 1078>> }

\* the bodies of the try statements (first and last line) whose handler is
\* `except Exception` or a bare `except` and does not re-raise
TryBodies ==
    { <<164, 182>>, <<175, 177>>,      \* get_free_proxy
      <<472, 487>>,                    \* fetch_metadata_from_invidious
      <<509, 522>>,                    \* fetch_metadata_from_piped
      <<558, 573>>,                    \* fetch_metadata_from_youtubei
      <<615, 633>>,                    \* fetch_metadata_from_watch_html
      <<758, 817>>,                    \* get_full_video_metadata
      <<975, 989>>,                    \* _download_stream_via_requests
      <<1000, 1019>>,                  \* _convert_audio_to_mp3
      <<1069, 1078>> }                 \* download_video

\* an exception raised at this line is caught where it occurs
is_caught(line) == \E body \in TryBodies : body[1] <= line /\ line <= body[2]

\* the chain entered at the internal player API, without the engine stage
after_build_skips_engine(who) == IF who = "chain" THEN "youtubei_begin" ELSE "built"

\* position reached when _build_proxy_candidates returns
after_build(who) == IF who = "chain" THEN "engine" ELSE "built"

\* app.py:103-111, then either the call of get_free_proxy or app.py:118-127
build_begin(incl, who) ==
    LET cands == static_candidates(FORCED_PROXY, STATIC_PROXY_POOL, incl,
                                   ALLOW_DIRECT_CONNECTION)
    IN  /\ include_direct' = incl
        /\ caller' = who
        /\ candidates' = cands
        /\ IF ENABLE_FREE_PROXY_FALLBACK
           THEN /\ pc' = "get_free_proxy"
                /\ source_idx' = 1
                /\ proxy_candidates' = <<>>
           ELSE /\ pc' = after_build(who)
                /\ source_idx' = 0
                /\ proxy_candidates' = filtered_or_direct(cands)

\* get_free_proxy, app.py:162-186: one source yields nothing (exception,
\* status other than 200, or no valid line); the loop goes on to the next
\* source, and after the last one get_free_proxy returns None
get_free_proxy_miss ==
    /\ pc = "get_free_proxy"
    /\ \E why \in {RaiseAt(164), Non200, Data(NoDict)} :
         /\ netCalls' = netCalls + 1
         /\ last_outcome' = Outcome(why)
         /\ IF why.kind = "raise" /\ ~is_caught(why.at)
            THEN /\ pc' = "raised"
                 /\ raised_from' = IF caller = "chain" THEN "get_full_video_metadata"
                                   ELSE "_build_proxy_candidates"
                 /\ UNCHANGED <<source_idx, candidates, proxy_candidates>>
            ELSE /\ raised_from' = raised_from
                 /\ IF source_idx < NumFreeProxySources
                    THEN /\ source_idx' = source_idx + 1
                         /\ UNCHANGED <<pc, candidates, proxy_candidates>>
                    ELSE /\ source_idx' = 0
                         /\ pc' = after_build(caller)
                         /\ candidates' = candidates
                         /\ proxy_candidates' = filtered_or_direct(candidates)
    /\ UNCHANGED <<proxyVars, caller, include_direct, request, proxy_idx,
                   variant_idx, instances, attempts, metadata_context, response,
                   dlVars>>

\* get_free_proxy, app.py:165-182: a source lists proxies; one of them is
\* returned, after a successful probe or unverified (the fetch of the list
\* and at least one probe are network calls)
get_free_proxy_hit ==
    /\ pc = "get_free_proxy"
    /\ \E line \in FreeProxyLines :
         LET free_proxy == free_proxy_scheme(source_idx) \o line
             cands == IF Truthy(free_proxy) THEN Append(candidates, free_proxy)
                      ELSE candidates
         IN  /\ netCalls' = netCalls + 2
             /\ source_idx' = 0
             /\ pc' = after_build(caller)
             /\ candidates' = cands
             /\ proxy_candidates' = filtered_or_direct(cands)
    /\ last_outcome' = Outcome(Data(NoDict))
    /\ UNCHANGED <<proxyVars, caller, include_direct, request, proxy_idx,
                   variant_idx, instances, attempts, metadata_context,
                   raised_from, response, dlVars>>

\* a call _build_proxy_candidates(include_direct) on its own
call_build_proxy_candidates ==
    /\ pc \in {"idle", "built"}
    /\ \E incl \in BOOLEAN : build_begin(incl, "direct_call")
    /\ netCalls' = 0
    /\ UNCHANGED <<proxyVars, chainVars>>

(***************************************************************************)
(* Raw responses of the collaborators                                      *)
(***************************************************************************)
TitleValues == {None, "", "Never Gonna Give You Up"}

Chars720p == <<"7", "2", "0", "p">>
Chars128 == <<"1", "2", "8">>

InvFormatStream ==
    ("url" :> "https://mirror/itag18") @@ ("type" :> "video/mp4") @@
    ("qualityLabel" :> PyStr(Chars720p))
InvAudioStream ==
    ("url" :> "https://mirror/itag140") @@ ("type" :> "audio/mp4") @@
    ("bitrate" :> PyStr(Chars128))
\* an audio stream without a bitrate: its sort key is the int default 0
InvAudioNoBitrate ==
    ("url" :> "https://mirror/itag139") @@ ("type" :> "audio/mp4")
PipedVideoStream ==
    ("url" :> "https://pipedproxy/v") @@ ("quality" :> PyStr(Chars720p)) @@
    ("videoOnly" :> FALSE)
PipedAudioStream ==
    ("url" :> "https://pipedproxy/a") @@ ("bitrate" :> PyInt(128)) @@
    ("mimeType" :> "audio/mp4")

\* what ydl.extract_info(url, download=False) returns: None or an info dict
EngineInfos ==
    {NoDict} \cup { ("id" :> "dQw4w9WgXcQ") @@ ("title" :> t) : t \in TitleValues }

StreamingDatas ==
    { NoDict,
      ("formats" :> <<InvFormatStream>>) @@ ("adaptiveFormats" :> <<InvAudioStream>>) }

\* a player response (youtubei body, or the blob of the watch page)
PlayerDatas ==
    {NoDict} \cup
    { ("videoDetails" :> (("videoId" :> "dQw4w9WgXcQ") @@ ("title" :> t))) @@
      ("streamingData" :> sd) : t \in TitleValues, sd \in StreamingDatas }

\* the JSON body of GET /api/v1/videos/<id> of an Invidious instance
InvidiousDatas ==
    { ("videoId" :> "dQw4w9WgXcQ") @@ ("error" :> "Video unavailable") } \cup
    { ("videoId" :> "dQw4w9WgXcQ") @@ ("title" :> t) @@
      ("authorUrl" :> "/channel/UCuAXFkgsw1L7xaCfnd5JJOw") @@
      ("formatStreams" :> bag[1]) @@ ("adaptiveFormats" :> bag[2]) :
        t \in TitleValues \ {""},
        bag \in { <<<<>>, <<>>>>,
                  <<<<InvFormatStream>>, <<InvAudioStream, InvAudioNoBitrate>>>> } }

\* the JSON body of GET /streams/<id> of a Piped instance
PipedDatas ==
    { NoDict, ("error" :> "Video unavailable") } \cup
    { ("title" :> t) @@ ("videoStreams" :> bag[1]) @@ ("audioStreams" :> bag[2]) :
        t \in TitleValues \ {""},
        bag \in { <<<<>>, <<>>>>, <<<<PipedVideoStream>>, <<PipedAudioStream>>>> } }


EngineOutcomes == { RaiseAt(l) : l \in {762, 774, 812} } \cup { Data(i) : i \in EngineInfos }
YoutubeiOutcomes ==
    { RaiseAt(l) : l \in {558, 569, 570} } \cup {Non200} \cup { Data(d) : d \in PlayerDatas }
WatchHtmlOutcomes ==
    { RaiseAt(l) : l \in {615, 626, 630} } \cup {Non200} \cup { Data(d) : d \in PlayerDatas }
InvidiousOutcomes ==
    { RaiseAt(l) : l \in {472, 480, 481} } \cup {Non200} \cup { Data(d) : d \in InvidiousDatas }
PipedOutcomes ==
    { RaiseAt(l) : l \in {509, 516, 519} } \cup {Non200} \cup { Data(d) : d \in PipedDatas }

\* INVIDIOUS_INSTANCES, app.py:68-77, and PIPED_API_INSTANCES, app.py:80-92
INVIDIOUS_INSTANCES ==
    SubSeq(<<"https://yt.artemislena.eu", "https://invidious.protokolla.fi",
             "https://invidious.jing.rocks", "https://invidious.privacydev.net",
             "https://invidious.fdn.fr", "https://yt.mnt.lv">>, 1, NumInvidious)
PIPED_API_INSTANCES ==
    SubSeq(<<"https://pipedapi.kavin.rocks", "https://pipedapi-libre.kavin.rocks",
             "https://pipedapi.leptons.xyz", "https://pipedapi.nosebs.ru",
             "https://piped-api.codespace.cz", "https://pipedapi.reallyaweso.me",
             "https://api.piped.private.coffee", "https://pipedapi.ducks.party",
             "https://pipedapi.darkness.services", "https://pipedapi.orangenet.cc">>,
           1, NumPiped)

\* len(lst) draws from lst with replacement
shuffles_with_replacement(lst) ==
    { [i \in 1..Len(lst) |-> lst[o[i]]] : o \in [1..Len(lst) -> 1..Len(lst)] }

\* random.sample(lst, len(lst)): the rearrangements of lst
shuffles(lst) ==
    { [i \in 1..Len(lst) |-> lst[o[i]]] :
        o \in { f \in [1..Len(lst) -> 1..Len(lst)] :
                  \A a, b \in 1..Len(lst) : a # b => f[a] # f[b] } }

(***************************************************************************)
(* get_full_video_metadata, app.py:690-844, and the four fetchers          *)
(***************************************************************************)
Attempt(stage, variant, proxy) == [stage |-> stage, variant |-> variant, proxy |-> proxy]

url_of(req) == req.body["url"]

\* an exception leaves get_full_video_metadata for the handler
propagate ==
    /\ pc' = "raised"
    /\ raised_from' = "get_full_video_metadata"
    /\ UNCHANGED <<proxy_idx, variant_idx, instances, metadata_context>>

\* the record is kept but an engine success falls through to the fetchers
chain_returns_falls_through(result) ==
    /\ pc' = IF pc = "engine" THEN "youtubei_begin" ELSE "resolved"
    /\ metadata_context' = result
    /\ UNCHANGED <<proxy_idx, variant_idx, instances, raised_from>>

\* get_full_video_metadata returns `result` (a record, or NoDict for None);
\* the locals of the loops are gone
chain_returns(result) ==
    /\ pc' = "resolved"
    /\ metadata_context' = result
    /\ proxy_idx' = 0
    /\ variant_idx' = 0
    /\ instances' = <<>>
    /\ UNCHANGED raised_from

\* the 'proxy' option the engine is given for a candidate: the candidate
\* when it is a proxy (app.py:761-762); otherwise _build_ydl_opts finds no
\* 'proxy' key and puts FORCED_PROXY there when one is set (app.py:681-685)
ydl_opts_proxy(candidate) ==
    IF Truthy(candidate) THEN candidate
    ELSE IF Truthy(FORCED_PROXY) THEN FORCED_PROXY
    ELSE None

\* app.py:755-823: one strategy against one proxy candidate
engine_attempt ==
    /\ pc = "engine"
    /\ \E out \in EngineOutcomes :
         LET proxy == proxy_candidates[proxy_idx]
             info == out.data
         IN  /\ attempts' = Append(attempts, Attempt("engine", strategy_name(variant_idx), proxy))
             /\ netCalls' = netCalls + 1
             /\ last_outcome' = Outcome(out) @@ [via |-> ydl_opts_proxy(proxy)]
             /\ IF out.kind = "raise" /\ ~is_caught(out.at) THEN propagate
                ELSE IF out.kind = "data" /\ info # NoDict /\ Truthy(Get(info, "title", None))
                THEN chain_returns(engine_metadata(info, proxy, variant_idx))
                ELSE /\ UNCHANGED <<instances, metadata_context, raised_from>>
                     /\ IF variant_idx < NumStrategies
                        THEN /\ variant_idx' = variant_idx + 1
                             /\ UNCHANGED <<pc, proxy_idx>>
                        ELSE IF proxy_idx < Len(proxy_candidates)
                        THEN /\ variant_idx' = 1
                             /\ proxy_idx' = proxy_idx + 1
                             /\ pc' = pc
                        ELSE /\ variant_idx' = 0
                             /\ proxy_idx' = 0
                             /\ pc' = "youtubei_begin"
    /\ UNCHANGED <<proxyVars, caller, include_direct, candidates, source_idx,
                   proxy_candidates, request, response, dlVars>>

\* app.py:531-535, 594-598, 455-461, 496-500: a fetcher starts; without a
\* video id it returns None at once, and the chain goes to the next fetcher
fetcher_begin ==
    /\ pc \in {"youtubei_begin", "watch_html_begin", "invidious_begin", "piped_begin"}
    /\ IF ~Truthy(extract_video_id(url_of(request)))
       THEN IF pc = "piped_begin"
            THEN chain_returns(NoDict)
            ELSE /\ UNCHANGED <<proxy_idx, variant_idx, instances, raised_from>>
                 /\ pc' = CASE pc = "youtubei_begin" -> "watch_html_begin"
                                 [] pc = "watch_html_begin" -> "invidious_begin"
                                 [] pc = "invidious_begin" -> "piped_begin"
                 /\ UNCHANGED metadata_context
       ELSE /\ proxy_idx' = 1
            /\ variant_idx' = 1
            /\ UNCHANGED <<metadata_context, raised_from>>
            /\ CASE pc = "youtubei_begin" -> pc' = "youtubei" /\ instances' = <<>>
                 [] pc = "watch_html_begin" -> pc' = "watch_html" /\ instances' = <<>>
                 [] pc = "invidious_begin" ->
                       pc' = "invidious" /\ instances' \in shuffles(INVIDIOUS_INSTANCES)
                 [] pc = "piped_begin" ->
                       pc' = "piped" /\ instances' \in shuffles(PIPED_API_INSTANCES)
    /\ UNCHANGED <<proxyVars, caller, include_direct, candidates, source_idx,
                   proxy_candidates, netCalls, request, attempts, last_outcome,
                   response, dlVars>>

\* the loop of a fetcher over proxy_candidates goes on, or the fetcher
\* returns None and the next one is called
next_proxy_or(next_pc) ==
    /\ UNCHANGED <<variant_idx, instances, metadata_context, raised_from>>
    /\ IF proxy_idx < Len(proxy_candidates)
       THEN proxy_idx' = proxy_idx + 1 /\ pc' = pc
       ELSE proxy_idx' = 0 /\ pc' = next_pc

\* app.py:537-577 and 606-637: one proxy candidate of the internal player
\* API, or of the watch-page scrape
player_attempt(stage, strategy, outcomes, next_pc) ==
    /\ pc = stage
    /\ \E out \in outcomes :
         LET proxy == proxy_candidates[proxy_idx]
             metadata == map_player_response_metadata(out.data, proxy, strategy)
         IN  /\ attempts' = Append(attempts, Attempt(stage, "", proxy))
             /\ netCalls' = netCalls + 1
             /\ last_outcome' = Outcome(out)
             /\ IF out.kind = "raise" /\ ~is_caught(out.at) THEN propagate
                ELSE IF out.kind = "data" /\ metadata # NoDict THEN chain_returns(metadata)
                ELSE next_proxy_or(next_pc)
    /\ UNCHANGED <<proxyVars, caller, include_direct, candidates, source_idx,
                   proxy_candidates, request, response, dlVars>>

youtubei_attempt ==
    player_attempt("youtubei", "youtubei_player", YoutubeiOutcomes, "watch_html_begin")

watch_html_attempt ==
    player_attempt("watch_html", "watch_html_scrape", WatchHtmlOutcomes, "invidious_begin")

\* app.py:468-491: one instance through one proxy candidate
invidious_attempt ==
    /\ pc = "invidious"
    /\ \E out \in InvidiousOutcomes :
         LET proxy == proxy_candidates[proxy_idx]
             instance == instances[variant_idx]
         IN  /\ attempts' = Append(attempts, Attempt("invidious", instance, proxy))
             /\ netCalls' = netCalls + 1
             /\ last_outcome' = Outcome(out)
             /\ IF out.kind = "raise" /\ ~is_caught(out.at) THEN propagate
                ELSE IF out.kind = "data"
                THEN chain_returns(invidious_metadata(out.data, instance, proxy))
                ELSE /\ UNCHANGED <<instances, metadata_context, raised_from>>
                     /\ IF proxy_idx < Len(proxy_candidates)
                        THEN /\ proxy_idx' = proxy_idx + 1
                             /\ UNCHANGED <<pc, variant_idx>>
                        ELSE IF variant_idx < Len(instances)
                        THEN /\ proxy_idx' = 1
                             /\ variant_idx' = variant_idx + 1
                             /\ pc' = pc
                        ELSE /\ proxy_idx' = 0
                             /\ variant_idx' = 0
                             /\ pc' = "piped_begin"
    /\ UNCHANGED <<proxyVars, caller, include_direct, candidates, source_idx,
                   proxy_candidates, request, response, dlVars>>

\* app.py:506-526: one instance, without a proxy; after the last one
\* get_full_video_metadata returns None (app.py:843-844)
piped_attempt ==
    /\ pc = "piped"
    /\ \E out \in PipedOutcomes :
         LET instance == instances[variant_idx]
         IN  /\ attempts' = Append(attempts, Attempt("piped", instance, None))
             /\ netCalls' = netCalls + 1
             /\ last_outcome' = Outcome(out)
             /\ IF out.kind = "raise" /\ ~is_caught(out.at) THEN propagate
                ELSE IF out.kind = "data" /\ out.data # NoDict
                THEN chain_returns(map_piped_metadata(out.data, instance))
                ELSE IF variant_idx < Len(instances)
                THEN /\ variant_idx' = variant_idx + 1
                     /\ UNCHANGED <<pc, metadata_context, instances, raised_from, proxy_idx>>
                ELSE chain_returns(NoDict)
    /\ UNCHANGED <<proxyVars, caller, include_direct, candidates, source_idx,
                   proxy_candidates, request, response, dlVars>>

(***************************************************************************)
(* The handlers, app.py:1121-1205                                          *)
(***************************************************************************)
\* JSON bodies of the requests
MainUrls == {WatchUrl, HomeUrl, BareShortUrl, MentionUrl, OtherUrl}
Qualities == {"audio", "4k"}     \* "best" is the default of an absent field
Bodies ==
    { NoDict, ("quality" :> "best") } \cup
    { ("url" :> u) : u \in MainUrls } \cup
    { ("url" :> WatchUrl) @@ ("quality" :> q) : q \in Qualities }

ErrorBody(msg) == ("success" :> FALSE) @@ ("error" :> msg)

\* return jsonify(body), status
respond(status, body) ==
    /\ pc' = "responded"
    /\ response' = [status |-> status, body |-> body]

\* the handler calls get_full_video_metadata(url), app.py:753-755
call_get_full_video_metadata ==
    /\ build_begin(TRUE, "chain")
    /\ proxy_idx' = 1
    /\ variant_idx' = 1
    /\ UNCHANGED response

\* POST /api/process, app.py:1132-1148
process_video_begin ==
    /\ pc = "idle"
    /\ \E body \in Bodies :
         /\ request' = [endpoint |-> "/api/process", body |-> body]
         /\ IF body = NoDict \/ "url" \notin DOMAIN body
            THEN /\ respond(400, ErrorBody("Missing required field: url"))
                 /\ UNCHANGED <<caller, include_direct, candidates, source_idx,
                                proxy_candidates, proxy_idx, variant_idx>>
            ELSE IF ~validate_youtube_url(body["url"])
            THEN /\ respond(400, ErrorBody("Invalid YouTube URL"))
                 /\ UNCHANGED <<caller, include_direct, candidates, source_idx,
                                proxy_candidates, proxy_idx, variant_idx>>
            ELSE IF Get(body, "quality", "best") \notin {"best", "audio"}
            THEN /\ respond(400, ErrorBody("Invalid quality. Must be \"best\" or \"audio\""))
                 /\ UNCHANGED <<caller, include_direct, candidates, source_idx,
                                proxy_candidates, proxy_idx, variant_idx>>
            ELSE call_get_full_video_metadata
    /\ netCalls' = 0
    /\ UNCHANGED <<proxyVars, instances, attempts, last_outcome, metadata_context,
                   raised_from, dlVars>>

\* POST /api/metadata, app.py:1186-1197
get_metadata_begin ==
    /\ pc = "idle"
    /\ \E body \in Bodies :
         /\ request' = [endpoint |-> "/api/metadata", body |-> body]
         /\ IF body = NoDict \/ "url" \notin DOMAIN body
            THEN /\ respond(400, ErrorBody("Missing required field: url"))
                 /\ UNCHANGED <<caller, include_direct, candidates, source_idx,
                                proxy_candidates, proxy_idx, variant_idx>>
            ELSE IF ~validate_youtube_url(body["url"])
            THEN /\ respond(400, ErrorBody("Invalid YouTube URL"))
                 /\ UNCHANGED <<caller, include_direct, candidates, source_idx,
                                proxy_candidates, proxy_idx, variant_idx>>
            ELSE call_get_full_video_metadata
    /\ netCalls' = 0
    /\ UNCHANGED <<proxyVars, instances, attempts, last_outcome, metadata_context,
                   raised_from, dlVars>>

\* POST /api/metadata, app.py:1198-1202
get_metadata_end ==
    /\ pc = "resolved"
    /\ request.endpoint = "/api/metadata"
    /\ IF metadata_context = NoDict
       THEN respond(404, ErrorBody("Failed to extract video metadata"))
       ELSE respond(200, ("success" :> TRUE) @@
                         ("metadata" :> public_metadata(metadata_context)))
    /\ UNCHANGED <<proxyVars, caller, include_direct, candidates, source_idx,
                   proxy_candidates, netCalls, request, proxy_idx, variant_idx,
                   instances, attempts, last_outcome, metadata_context,
                   raised_from, dlVars>>

\* POST /api/process, app.py:1149-1150
process_video_no_metadata ==
    /\ pc = "resolved"
    /\ request.endpoint = "/api/process"
    /\ metadata_context = NoDict
    /\ respond(500, ErrorBody("Failed to extract video metadata"))
    /\ UNCHANGED <<proxyVars, caller, include_direct, candidates, source_idx,
                   proxy_candidates, netCalls, request, proxy_idx, variant_idx,
                   instances, attempts, last_outcome, metadata_context,
                   raised_from, dlVars>>

\* app.py:1178-1180 and 1204-1205: the handler's own except clause
handler_except ==
    /\ pc = "raised"
    /\ caller = "chain"
    /\ respond(500, ErrorBody("Internal server error"))
    /\ UNCHANGED <<proxyVars, caller, include_direct, candidates, source_idx,
                   proxy_candidates, netCalls, request, proxy_idx, variant_idx,
                   instances, attempts, last_outcome, metadata_context,
                   raised_from, dlVars>>

(***************************************************************************)
(* download_video and its helpers, app.py:931-1087                         *)
(***************************************************************************)
WebmMimes == {"audio/webm", "video/webm"}
Mp4Mimes == {"audio/mp4", "video/mp4"}

\* app.py:931-945, for the mime types and containers of the model
infer_extension(stream, default) ==
    LET mime == IF Truthy(Get(stream, "mimeType", None)) THEN stream["mimeType"]
                ELSE IF Truthy(Get(stream, "type", None)) THEN stream["type"]
                ELSE ""
        container == IF Truthy(Get(stream, "container", None)) THEN stream["container"]
                     ELSE ""
    IN  IF mime \in WebmMimes \/ container = "webm" THEN "webm"
        ELSE IF mime \in Mp4Mimes \/ container = "mp4" THEN "mp4"
        ELSE IF container # "" THEN container
        ELSE default

\* the file system after a file is written, and after unlink(missing_ok=True)
write_file(files, path, size) == (path :> size) @@ files
unlink(files, path) == [f \in DOMAIN files \ {path} |-> files[f]]

Sizes == {0, 1048576}

\* what the GET of the stream URL does, app.py:974-993: it raises before
\* the file is opened (connection error at 975, raise_for_status at 983),
\* or after open() created the file, while or after `size` bytes of chunks
\* are written (985), or the whole body (of `size` bytes) is written
HttpDownloadOutcomes ==
    { [kind |-> "raise", at |-> l, size |-> 0] : l \in {975, 983} } \cup
    { [kind |-> "raise", at |-> 985, size |-> n] : n \in Sizes } \cup
    { [kind |-> "written", at |-> 0, size |-> n] : n \in Sizes }

\* what ffmpeg does, app.py:1000-1023: it cannot be run, or fails (leaving
\* no target, or part of it), or exits with 0 and a target of `size` bytes
ConvertOutcomes ==
    { [kind |-> "raise", at |-> 1000, target |-> FALSE, size |-> 0],
      [kind |-> "failed", at |-> 0, target |-> FALSE, size |-> 0],
      [kind |-> "failed", at |-> 0, target |-> TRUE, size |-> 0] } \cup
    { [kind |-> "converted", at |-> 0, target |-> TRUE, size |-> n] : n \in Sizes }

\* _download_stream_via_requests whose except clause leaves the file
download_stream_via_requests_keeps_partial(files, stream, temp_file, http) ==
    LET opened == IF http.kind = "written" \/ http.at >= 984
                  THEN write_file(files, temp_file, http.size)
                  ELSE files
    IN  IF ~Truthy(Get(stream, "url", None)) THEN [files |-> files, path |-> NoPath]
        ELSE IF http.kind = "written" THEN [files |-> opened, path |-> temp_file]
        ELSE [files |-> opened, path |-> NoPath]

\* app.py:948-993: the files afterwards and the returned path
download_stream_via_requests(files, stream, temp_file, http) ==
    LET \* app.py:984-987: open() creates the file, the chunks fill it
        opened == IF http.kind = "written" \/ http.at >= 984
                  THEN write_file(files, temp_file, http.size)
                  ELSE files
    IN  IF ~Truthy(Get(stream, "url", None)) THEN [files |-> files, path |-> NoPath]
        ELSE IF http.kind = "written" THEN [files |-> opened, path |-> temp_file]
        ELSE \* app.py:990-993: the except clause removes what was written
             [files |-> unlink(opened, temp_file), path |-> NoPath]

\* app.py:996-1024: the files afterwards and the returned path
convert_audio_to_mp3(files, source_path, conv) ==
    LET target_path == Path(source_path.stem, "mp3")
        after == IF conv.target THEN write_file(files, target_path, conv.size) ELSE files
    IN  IF conv.kind = "converted" /\ target_path \in DOMAIN after
        THEN [files |-> unlink(after, source_path), path |-> target_path]
        ELSE [files |-> after, path |-> source_path]

\* app.py:1027-1037, after the stream was selected
download_via_mirror(files, stream, temp_file, quality, http, conv) ==
    IF stream = NoDict THEN [files |-> files, path |-> NoPath]
    ELSE LET got == download_stream_via_requests(files, stream, temp_file, http)
         IN  IF got.path = NoPath THEN got
             ELSE IF quality = "audio" THEN convert_audio_to_mp3(got.files, got.path, conv)
             ELSE got

quality_of(req) == Get(req.body, "quality", "best")

\* download_video going to the engine before any mirror attempt
download_video_begin_engine_first ==
    /\ pc = "resolved"
    /\ request.endpoint = "/api/process"
    /\ metadata_context # NoDict
    /\ pc' = "engine_download"
    /\ temp_dir' = "present"
    /\ UNCHANGED <<proxyVars, caller, include_direct, candidates, source_idx,
                   proxy_candidates, netCalls, request, proxy_idx, variant_idx,
                   instances, attempts, last_outcome, metadata_context,
                   raised_from, response, fs, file_path, selections,
                   download_attempts>>

\* POST /api/process, app.py:1151-1154, and download_video, app.py:1042-1061:
\* the temporary directory is created
download_video_begin ==
    /\ pc = "resolved"
    /\ request.endpoint = "/api/process"
    /\ metadata_context # NoDict
    /\ pc' = "mirror_first"
    /\ temp_dir' = "present"
    /\ UNCHANGED <<proxyVars, caller, include_direct, candidates, source_idx,
                   proxy_candidates, netCalls, request, proxy_idx, variant_idx,
                   instances, attempts, last_outcome, metadata_context,
                   raised_from, response, fs, file_path, selections,
                   download_attempts>>

\* app.py:1064-1066 and 1083-1087: _download_via_mirror, first or again
mirror_download_attempt ==
    /\ pc \in {"mirror_first", "mirror_retry"}
    /\ \E sel \in select_mirror_stream(metadata_context, quality_of(request)) :
       \* the GET is made only for a stream with a URL, ffmpeg is run only
       \* on a fetched file and for quality audio
       \E http \in IF sel.kind = "return" /\ Truthy(Get(sel.stream, "url", None))
                   THEN HttpDownloadOutcomes
                   ELSE {[kind |-> "raise", at |-> 975, size |-> 0]} :
       \E conv \in IF http.kind = "written" /\ quality_of(request) = "audio"
                   THEN ConvertOutcomes
                   ELSE {[kind |-> "failed", at |-> 0, target |-> FALSE, size |-> 0]} :
         LET temp_file == Path(IF pc = "mirror_first" THEN "uuid-1" ELSE "uuid-2",
                               infer_extension(sel.stream, "mp4"))
             got == download_via_mirror(fs, sel.stream, temp_file, quality_of(request),
                                        http, conv)
         IN  /\ selections' = Append(selections, sel)
             /\ download_attempts' = Append(download_attempts, "mirror")
             /\ last_outcome' =
                    IF sel.kind = "return" /\ Truthy(Get(sel.stream, "url", None))
                    THEN [kind |-> http.kind, at |-> http.at]
                    ELSE NoOutcome
             /\ metadata_context' =
                    IF "__mirror_streams" \in DOMAIN metadata_context
                    THEN [metadata_context EXCEPT !["__mirror_streams"] =
                             mirror_streams_after_select(metadata_context, quality_of(request))]
                    ELSE metadata_context
             /\ IF sel.kind = "raise"
                THEN \* not inside a try of download_video
                     /\ pc' = IF is_caught(IF pc = "mirror_first" THEN 1064 ELSE 1083)
                              THEN "engine_download" ELSE "raised"
                     /\ raised_from' = "download_video"
                     /\ UNCHANGED <<fs, file_path, netCalls>>
                ELSE /\ fs' = got.files
                     /\ file_path' = got.path
                     /\ netCalls' = netCalls + (IF sel.stream = NoDict THEN 0 ELSE 1)
                     /\ raised_from' = raised_from
                     /\ pc' = IF got.path # NoPath THEN "download_returned"
                              ELSE IF pc = "mirror_first" THEN "engine_download"
                              ELSE "download_returned"
    /\ UNCHANGED <<proxyVars, caller, include_direct, candidates, source_idx,
                   proxy_candidates, request, proxy_idx, variant_idx, instances,
                   attempts, response, temp_dir>>

\* what the engine's download does, app.py:1069-1078: it raises (or returns
\* no info, and prepare_filename raises), or names a file `reported`, having
\* left a file `written` of `size` bytes in the directory ("": none)
EngineDownloadOutcomes ==
    { [kind |-> "raise", reported |-> "", written |-> w, size |-> 0] : w \in {"", "part"} } \cup
    { [kind |-> "done", reported |-> "mp4", written |-> w, size |-> n] :
        w \in {"mp4", "mp3"}, n \in Sizes }

\* app.py:1068-1080
engine_download_attempt ==
    /\ pc = "engine_download"
    /\ \E out \in EngineDownloadOutcomes :
         LET written == IF out.written = "" THEN fs
                        ELSE write_file(fs, Path("title", out.written), out.size)
             reported == Path("title", IF quality_of(request) = "audio" THEN "mp3"
                                       ELSE out.reported)
         IN  /\ fs' = written
             /\ IF out.kind = "done" /\ reported \in DOMAIN written
                THEN file_path' = reported /\ pc' = "download_returned"
                ELSE file_path' = NoPath /\ pc' = "mirror_retry"
    /\ download_attempts' = Append(download_attempts, "engine")
    /\ netCalls' = netCalls + 1
    /\ UNCHANGED <<proxyVars, caller, include_direct, candidates, source_idx,
                   proxy_candidates, request, proxy_idx, variant_idx, instances,
                   attempts, last_outcome, metadata_context, raised_from, response,
                   temp_dir, selections>>

\* POST /api/process, app.py:1155-1176: the download failed (500 with the
\* metadata); or the file is uploaded, then removed with its directory
\* (rmdir fails, silently, on a directory that is not empty)
process_video_end ==
    /\ pc = "download_returned"
    /\ IF file_path = NoPath
       THEN /\ respond(500, ErrorBody("Failed to download video") @@
                            ("metadata" :> public_metadata(metadata_context)))
            /\ UNCHANGED <<fs, temp_dir, netCalls>>
       ELSE \E uploaded \in BOOLEAN :
              /\ netCalls' = netCalls + 1
              /\ fs' = unlink(fs, file_path)
              /\ temp_dir' = IF DOMAIN fs' = {} THEN "absent" ELSE temp_dir
              /\ respond(200, ("success" :> uploaded) @@
                              ("metadata" :> public_metadata(metadata_context)))
    /\ UNCHANGED <<proxyVars, caller, include_direct, candidates, source_idx,
                   proxy_candidates, request, proxy_idx, variant_idx, instances,
                   attempts, last_outcome, metadata_context, raised_from, file_path,
                   selections, download_attempts>>

\* module import, app.py:59-66: the configuration is read from the
\* environment once
InitConfig(forcedTexts, pools) ==
    /\ \E ytdl_proxy \in forcedTexts, proxy_url \in forcedTexts :
         FORCED_PROXY = normalize_proxy_url(OrText(ytdl_proxy, proxy_url))
    /\ \E pool \in pools : STATIC_PROXY_POOL = static_proxy_pool(pool)
    /\ ALLOW_DIRECT_CONNECTION \in BOOLEAN
    /\ ENABLE_FREE_PROXY_FALLBACK \in BOOLEAN

\* no request is being served
InitIdle ==
    /\ pc = "idle"
    /\ caller = "none"
    /\ include_direct = TRUE
    /\ candidates = <<>>
    /\ source_idx = 0
    /\ proxy_candidates = <<>>
    /\ netCalls = 0
    /\ request = NoDict
    /\ proxy_idx = 0
    /\ variant_idx = 0
    /\ instances = <<>>
    /\ attempts = <<>>
    /\ last_outcome = NoOutcome
    /\ metadata_context = NoDict
    /\ raised_from = "nowhere"
    /\ response = NoDict
    /\ temp_dir = "absent"
    /\ fs = NoDict
    /\ file_path = NoPath
    /\ selections = <<>>
    /\ download_attempts = <<>>

InitRest ==
    /\ InitThreads
    /\ InitIdle

InitProxy == InitConfig(RawProxyTexts, RawPools) /\ InitRest

NextProxy ==
    \/ call_build_proxy_candidates
    \/ get_free_proxy_miss
    \/ get_free_proxy_hit

SpecProxy == InitProxy /\ [][NextProxy]_vars

\* the configurations of the request pipeline
MainForcedTexts == { <<>>, <<"h1">> }
MainPools == { <<<<>>>> }

Init == InitConfig(MainForcedTexts, MainPools) /\ InitRest

Next ==
    \/ process_video_begin
    \/ get_metadata_begin
    \/ get_free_proxy_miss
    \/ get_free_proxy_hit
    \/ engine_attempt
    \/ fetcher_begin
    \/ youtubei_attempt
    \/ watch_html_attempt
    \/ invidious_attempt
    \/ piped_attempt
    \/ get_metadata_end
    \/ process_video_no_metadata
    \/ download_video_begin
    \/ mirror_download_attempt
    \/ engine_download_attempt
    \/ process_video_end
    \/ handler_except

Spec == Init /\ [][Next]_vars

\* C7: the list returned by _build_proxy_candidates is never empty and
\* holds no two equal entries (None, the direct sentinel, at most once)
C7_CandidatesNonEmptyDistinct ==
    pc = "built" =>
        /\ Len(proxy_candidates) >= 1
        /\ \A i, j \in 1..Len(proxy_candidates) :
               i # j => proxy_candidates[i] # proxy_candidates[j]

\* C7 witness: a built list from a configuration whose classes overlap
\* (an entry was dropped as already seen)
C7_Witness ==
    /\ pc = "built"
    /\ Len(candidates) >= 3
    /\ Len(proxy_candidates) < Len(candidates)

(***************************************************************************)
(* _select_mirror_stream called repeatedly on one record                   *)
(***************************************************************************)
Chars1080p == <<"1", "0", "8", "0", "p">>
Chars128k == <<"1", "2", "8", "k">>
Chars96 == <<"9", "6">>

PipedAudios ==
    { ("url" :> u) @@ ("bitrate" :> b) :
        u \in {"https://pipedproxy/a1", "https://pipedproxy/a2", None},
        b \in {PyInt(128), PyInt(64), PyStr(Chars128k), PyStr(Chars96)} }
PipedVideos ==
    { ("url" :> u) @@ ("quality" :> q) @@ ("height" :> h) @@ flags :
        u \in {"https://pipedproxy/v1", "https://pipedproxy/v2"},
        q \in {PyStr(Chars1080p), PyNone},
        h \in {PyInt(720), PyNone},
        flags \in { ("videoOnly" :> FALSE), ("videoOnly" :> TRUE),
                    ("videoOnly" :> TRUE) @@ ("hasAudio" :> TRUE) } }
InvFormats ==
    { ("url" :> u) @@ ("type" :> m) @@ ("qualityLabel" :> q) :
        u \in {"https://mirror/f1", "https://mirror/f2", None},
        m \in {"video/mp4", "audio/mp4"},
        q \in {PyStr(Chars720p), PyStr(Chars1080p)} }
InvAdaptives ==
    { ("url" :> u) @@ ("type" :> m) @@ ("bitrate" :> b) :
        u \in {"https://mirror/a1", "https://mirror/a2"},
        m \in {"audio/mp4", "video/mp4"},
        b \in {PyStr(Chars128), PyStr(Chars96), PyInt(128)} }

StreamLists(pool) == SeqsUpTo(pool, MaxStreams)

\* records of the three shapes, one list of the bag varying at a time
SelectContexts ==
    { ("title" :> "Never Gonna Give You Up") @@ ("__mirror_type" :> "piped") @@
      ("__mirror_streams" :> [videoStreams |-> bag[1], audioStreams |-> bag[2], proxyUrl |-> None]) :
        bag \in (StreamLists(PipedVideos) \X {<<>>, <<PipedAudioStream>>}) \cup
                ({<<>>, <<PipedVideoStream>>} \X StreamLists(PipedAudios)) } \cup
    { ("title" :> "Never Gonna Give You Up") @@ ("__mirror_type" :> "invidious") @@
      ("__mirror_streams" :> [formatStreams |-> bag[1], adaptiveFormats |-> bag[2]]) :
        bag \in (StreamLists(InvFormats) \X {<<>>, <<InvAudioStream>>}) \cup
                ({<<>>, <<InvFormatStream>>} \X StreamLists(InvAdaptives)) } \cup
    { ("title" :> "Never Gonna Give You Up") @@ ("__strategy" :> "youtubei_player") @@
      ("__mirror_streams" :> [formatStreams |-> bag[1], adaptiveFormats |-> bag[2]]) :
        bag \in {<<>>, <<InvFormatStream>>} \X StreamLists(InvAdaptives) }

InitSelect ==
    /\ InitThreads
    /\ FORCED_PROXY = None
    /\ STATIC_PROXY_POOL = <<>>
    /\ ALLOW_DIRECT_CONNECTION = TRUE
    /\ ENABLE_FREE_PROXY_FALLBACK = FALSE
    /\ pc = "select"
    /\ caller = "none"
    /\ include_direct = TRUE
    /\ candidates = <<>>
    /\ source_idx = 0
    /\ proxy_candidates = <<>>
    /\ netCalls = 0
    /\ \E q \in {"best", "audio"} :
         request = [endpoint |-> "none", body |-> ("quality" :> q)]
    /\ proxy_idx = 0
    /\ variant_idx = 0
    /\ instances = <<>>
    /\ attempts = <<>>
    /\ last_outcome = NoOutcome
    /\ metadata_context \in SelectContexts
    /\ raised_from = "nowhere"
    /\ response = NoDict
    /\ temp_dir = "absent"
    /\ fs = NoDict
    /\ file_path = NoPath
    /\ selections = <<>>
    /\ download_attempts = <<>>

\* one call _select_mirror_stream(metadata_context, quality), app.py:847-928
call_select_mirror_stream ==
    /\ pc = "select"
    /\ Len(selections) < MaxSelectCalls
    /\ \E sel \in select_mirror_stream(metadata_context, quality_of(request)) :
         selections' = Append(selections, sel)
    /\ metadata_context' =
           [metadata_context EXCEPT !["__mirror_streams"] =
               mirror_streams_after_select(metadata_context, quality_of(request))]
    /\ UNCHANGED <<proxyVars, pc, caller, include_direct, candidates, source_idx,
                   proxy_candidates, netCalls, request, proxy_idx, variant_idx,
                   instances, attempts, last_outcome, raised_from, response,
                   temp_dir, fs, file_path, download_attempts>>

NextSelect == call_select_mirror_stream

SpecSelect == InitSelect /\ [][NextSelect]_vars

(***************************************************************************)
(* POST /api/download of youtube_api.py, youtube_api.py:313-424           *)
(***************************************************************************)
\* youtube_api.py:243-245: 'youtube.com' or 'youtu.be' occurs in the
\* lowercased URL
validate_url(url) ==
    \/ url.netloc \in {"www.youtube.com", "youtu.be"}
    \/ \E i \in 1..Len(url.path) : url.path[i] \in {"youtube.com", "youtu.be"}

ApiBodies ==
    { NoDict, ("quality" :> "best") } \cup
    { ("url" :> u) : u \in MainUrls } \cup
    { ("url" :> u) @@ ("quality" :> q) : u \in MainUrls, q \in {"best", "audio", "4k"} }

\* youtube_api.py:316-355: the request is parsed and validated, the video
\* information is extracted (get_video_info_and_links returns None when
\* the engine raises, youtube_api.py:122-150) and the directory is created
api_download_begin ==
    /\ pc = "idle"
    /\ \E body \in ApiBodies, info_found \in BOOLEAN :
         /\ request' = [endpoint |-> "/api/download", body |-> body]
         /\ IF body = NoDict \/ "url" \notin DOMAIN body
            THEN /\ respond(400, ErrorBody("Missing required field: url"))
                 /\ UNCHANGED <<temp_dir, netCalls>>
            ELSE IF Get(body, "quality", "best") \notin {"best", "audio"}
            THEN /\ respond(400, ErrorBody("Invalid quality. Must be \"best\" or \"audio\""))
                 /\ UNCHANGED <<temp_dir, netCalls>>
            ELSE IF ~validate_url(body["url"])
            THEN /\ respond(400, ErrorBody("Invalid YouTube URL. Must be a youtube.com or youtu.be link"))
                 /\ UNCHANGED <<temp_dir, netCalls>>
            ELSE IF ~info_found
            THEN /\ respond(404, ErrorBody("Failed to extract video information"))
                 /\ netCalls' = 1
                 /\ UNCHANGED temp_dir
            ELSE /\ pc' = "api_download"
                 /\ netCalls' = 1
                 /\ temp_dir' = "present"
                 /\ UNCHANGED response
    /\ UNCHANGED <<proxyVars, caller, include_direct, candidates, source_idx,
                   proxy_candidates, proxy_idx, variant_idx, instances, attempts,
                   last_outcome, metadata_context, raised_from, fs, file_path,
                   selections, download_attempts>>

\* what the engine's download does, youtube_api.py:374-377: it raises while
\* downloading (leaving nothing, or a part file), or it downloads a file of
\* `size` bytes in the container `ext` of the chosen format and finishes;
\* with the FFmpegExtractAudio post-processor (quality audio) `converted`
\* says whether the conversion to mp3 worked, otherwise the engine raises
\* with the downloaded file left
ApiEngineOutcomes ==
    { [kind |-> "raise", ext |-> w, size |-> 0, converted |-> FALSE] : w \in {"", "part"} } \cup
    { [kind |-> "done", ext |-> e, size |-> n, converted |-> c] :
        e \in {"mp4", "webm", "m4a"}, n \in Sizes, c \in BOOLEAN }

\* youtube_api.py:373-414: download, then the file named by
\* prepare_filename (the name before post-processing: title and the
\* container of the chosen format) is sent, if it exists.  The audio
\* post-processor replaces the downloaded file by title.mp3.
api_download_engine ==
    /\ pc = "api_download"
    /\ \E out \in ApiEngineOutcomes :
         LET quality == quality_of(request)
             downloaded == IF out.ext = "" THEN fs
                           ELSE write_file(fs, Path("title", out.ext), out.size)
             raised == out.kind = "raise" \/ (quality = "audio" /\ ~out.converted)
             produced == IF quality = "audio" /\ out.kind = "done" /\ out.converted
                         THEN write_file(unlink(downloaded, Path("title", out.ext)),
                                         Path("title", "mp3"), out.size)
                         ELSE downloaded
             filename == Path("title", out.ext)
         IN  IF raised
             THEN \* youtube_api.py:400-414: the directory is emptied and removed
                  /\ last_outcome' = [kind |-> "raise", at |-> 376]
                  /\ fs' = NoDict
                  /\ temp_dir' = "absent"
                  /\ file_path' = NoPath
                  /\ respond(500, ErrorBody("Download failed"))
             ELSE /\ last_outcome' = [kind |-> "done", at |-> 0]
                  /\ fs' = produced
                  /\ temp_dir' = temp_dir
                  /\ IF filename \notin DOMAIN produced
                     THEN /\ file_path' = NoPath
                          /\ respond(500, ErrorBody("Download failed - file not found"))
                     ELSE /\ file_path' = filename
                          /\ respond(200, ("file" :> filename) @@
                                          ("mimetype" :> IF quality = "best" THEN "video/mp4"
                                                         ELSE "audio/mpeg"))
    /\ netCalls' = netCalls + 1
    /\ UNCHANGED <<proxyVars, caller, include_direct, candidates, source_idx,
                   proxy_candidates, request, proxy_idx, variant_idx, instances,
                   attempts, metadata_context, raised_from, selections,
                   download_attempts>>

\* youtube_api.py:389-396: after the response was sent, the file and the
\* directory are removed (rmdir fails, silently, on a directory that is
\* not empty)
api_cleanup ==
    /\ pc = "responded"
    /\ request.endpoint = "/api/download"
    /\ response.status = 200
    /\ pc' = "cleaned"
    /\ fs' = unlink(fs, file_path)
    /\ temp_dir' = IF DOMAIN fs' = {} THEN "absent" ELSE temp_dir
    /\ UNCHANGED <<proxyVars, caller, include_direct, candidates, source_idx,
                   proxy_candidates, netCalls, request, proxy_idx, variant_idx,
                   instances, attempts, last_outcome, metadata_context,
                   raised_from, response, file_path, selections, download_attempts>>

InitApi ==
    /\ InitThreads
    /\ FORCED_PROXY = None
    /\ STATIC_PROXY_POOL = <<>>
    /\ ALLOW_DIRECT_CONNECTION = TRUE
    /\ ENABLE_FREE_PROXY_FALLBACK = FALSE
    /\ InitRest

NextApi ==
    \/ api_download_begin
    \/ api_download_engine
    \/ api_cleanup

SpecApi == InitApi /\ [][NextApi]_vars

(***************************************************************************)
(* The per-source mappings on their own, app.py:265-450 and 781-816        *)
(***************************************************************************)
\* date fields of a response: None (or a missing key), the four
\* representations of 5 March 2024, an ISO-8601 time with 'Z', the epoch
\* as a str, and dates that are not well-formed
DateValues ==
    { PyNone, PyInt(1709625600), PyStr(<<>>),
      PyStr(<<"2", "0", "2", "4", "-", "0", "3", "-", "0", "5">>),
      PyStr(<<"2", "0", "2", "4", "/", "0", "3", "/", "0", "5">>),
      PyStr(<<"2", "0", "2", "4", "0", "3", "0", "5">>),
      PyStr(<<"2", "0", "2", "4", "-", "0", "3", "-", "0", "5", "T",
              "0", "8", ":", "0", "0", ":", "0", "0", "Z">>),
      PyStr(<<"1", "7", "0", "9", "6", "2", "5", "6", "0", "0">>),
      PyStr(<<"2", "0", "2", "4", "-", "3", "-", "5">>),
      PyStr(<<"0", "5", "-", "0", "3", "-", "2", "0", "2", "4">>),
      PyStr(<<"5", " ", "M", "a", "r">>) }

\* the date in a second field of the same response
OtherDateValues ==
    { PyNone, PyInt(1709625600),
      PyStr(<<"2", "0", "2", "4", "-", "0", "3", "-", "0", "5">>) }

\* duration fields of a response: None (or a missing key), ints, and strs
\* that are numbers or not
DurationValues ==
    { PyNone, PyInt(212), PyInt(0), PyStr(<<"2", "1", "2">>), PyStr(<<>>),
      PyStr(<<"3", ":", "3", "2">>), PyStr(<<"P", "T", "3", "M">>) }

\* one call of a mapping: the response is remembered with the record
mapped(who, raw, record) ==
    /\ pc' = "mapped"
    /\ caller' = who
    /\ last_outcome' = Data(raw)
    /\ metadata_context' = record
    /\ UNCHANGED <<proxyVars, include_direct, candidates, source_idx,
                   proxy_candidates, netCalls, request, proxy_idx, variant_idx,
                   instances, attempts, raised_from, response, dlVars>>

\* _map_invidious_metadata(data, instance), app.py:265-322
call_map_invidious_metadata ==
    /\ pc = "map"
    /\ \E length \in DurationValues, published \in DateValues,
          premiere \in OtherDateValues :
           LET data == ("title" :> "Never Gonna Give You Up") @@
                       ("lengthSeconds" :> length) @@ ("published" :> published) @@
                       ("premiereTimestamp" :> premiere)
           IN  mapped("_map_invidious_metadata", data,
                      map_invidious_metadata(data, "https://yt.artemislena.eu"))

\* _map_piped_metadata(data, instance), app.py:325-382
call_map_piped_metadata ==
    /\ pc = "map"
    /\ \E duration \in DurationValues, uploadDate \in DateValues,
          uploadedTimestamp \in {PyNone, PyInt(1709625600)},
          uploadedDate \in OtherDateValues :
           LET data == ("title" :> "Never Gonna Give You Up") @@
                       ("duration" :> duration) @@ ("uploadDate" :> uploadDate) @@
                       ("uploadedTimestamp" :> uploadedTimestamp) @@
                       ("uploadedDate" :> uploadedDate)
           IN  mapped("_map_piped_metadata", data,
                      map_piped_metadata(data, "https://pipedapi.kavin.rocks"))

\* _map_player_response_metadata(player_data, proxy, strategy), app.py:385-450
call_map_player_response_metadata ==
    /\ pc = "map"
    /\ \E length \in DurationValues, uploadDate \in DateValues,
          publishDate \in OtherDateValues :
           LET player_data ==
                   ("videoDetails" :> (("title" :> "Never Gonna Give You Up") @@
                                       ("lengthSeconds" :> length))) @@
                   ("microformat" :>
                       ("playerMicroformatRenderer" :>
                           (("uploadDate" :> uploadDate) @@ ("publishDate" :> publishDate))))
           IN  mapped("_map_player_response_metadata", player_data,
                      map_player_response_metadata(player_data, None, "youtubei_player"))

\* the record built from the engine's info, app.py:781-816
call_engine_metadata ==
    /\ pc = "map"
    /\ \E duration \in DurationValues, upload_date \in OtherDateValues,
          release_date \in OtherDateValues :
           LET info == ("title" :> "Never Gonna Give You Up") @@
                       ("duration" :> duration) @@ ("upload_date" :> upload_date) @@
                       ("release_date" :> release_date)
           IN  mapped("engine", info, engine_metadata(info, None, 1))

InitMap ==
    /\ InitThreads
    /\ FORCED_PROXY = None
    /\ STATIC_PROXY_POOL = <<>>
    /\ ALLOW_DIRECT_CONNECTION = TRUE
    /\ ENABLE_FREE_PROXY_FALLBACK = FALSE
    /\ pc = "map"
    /\ caller = "none"
    /\ include_direct = TRUE
    /\ candidates = <<>>
    /\ source_idx = 0
    /\ proxy_candidates = <<>>
    /\ netCalls = 0
    /\ request = NoDict
    /\ proxy_idx = 0
    /\ variant_idx = 0
    /\ instances = <<>>
    /\ attempts = <<>>
    /\ last_outcome = NoOutcome
    /\ metadata_context = NoDict
    /\ raised_from = "nowhere"
    /\ response = NoDict
    /\ temp_dir = "absent"
    /\ fs = NoDict
    /\ file_path = NoPath
    /\ selections = <<>>
    /\ download_attempts = <<>>

NextMap ==
    \/ call_map_invidious_metadata
    \/ call_map_piped_metadata
    \/ call_map_player_response_metadata
    \/ call_engine_metadata

SpecMap == InitMap /\ [][NextMap]_vars

(***************************************************************************)
(* _resolve_cookie_file, app.py:133-157, called by concurrent requests     *)
(***************************************************************************)
Threads == 1..NumThreads

\* os.getenv(name, default)
getenv(name, default) == IF name \in DOMAIN environ THEN environ[name] ELSE default

\* base64.b64decode(text).decode('utf-8') for the texts of the model:
\* "Y29va2ll" is the encoding of "cookie"; "abc" has incorrect padding and
\* raises binascii.Error
b64decode_utf8(text) ==
    IF text = "Y29va2ll" THEN [kind |-> "text", v |-> "cookie"]
    ELSE [kind |-> "raise", v |-> ""]

\* Path(cookie_file) for the file names of the model
cookie_path(cookie_file) ==
    IF cookie_file = "cookies.txt" THEN Path("cookies", "txt") ELSE Path("yt", "txt")

\* tempfile.gettempdir() / f"yt_cookies_{os.getpid()}.txt", app.py:144
temp_cookie_path == Path("yt_cookies_pid", "txt")

\* the environments of the model: YTDL_COOKIES_B64 unset, valid or broken,
\* YTDL_COOKIES unset or naming a file
Environs ==
    { [n \in names |-> IF n = "YTDL_COOKIES_B64" THEN b ELSE "yt.txt"] :
        names \in SUBSET {"YTDL_COOKIES_B64", "YTDL_COOKIES"}, b \in {"Y29va2ll", "abc"} }

\* `return value` of a call of thread t
cookie_return(t, value) ==
    /\ cookie_returns' = Append(cookie_returns, value)
    /\ threads' = [threads EXCEPT ![t] = [pc |-> "idle", calls |-> @.calls + 1]]

\* app.py:133-138: the call begins; a cached path is returned at once
resolve_cookie_file_begin ==
    /\ \E t \in Threads :
         /\ threads[t].pc = "idle"
         /\ threads[t].calls < MaxCookieCalls
         /\ IF COOKIE_FILE_CACHE # NoPath
            THEN cookie_return(t, COOKIE_FILE_CACHE)
            ELSE /\ threads' = [threads EXCEPT ![t].pc = "inline"]
                 /\ UNCHANGED cookie_returns
    /\ UNCHANGED <<configVars, pipelineVars, fs, COOKIE_FILE_CACHE, environ,
                   cookie_lookups, dirs, uuids>>

\* app.py:140-149: the inline cookie of the environment is decoded and
\* written to a file, which is cached and returned; a text that cannot be
\* decoded is reported and skipped
resolve_cookie_file_inline ==
    /\ \E t \in Threads :
         /\ threads[t].pc = "inline"
         /\ LET inline_cookie == IF getenv("YTDL_COOKIES_B64", None) # None
                                 THEN getenv("YTDL_COOKIES_B64", None)
                                 ELSE getenv("YTDL_COOKIES_INLINE", None)
                decoded == b64decode_utf8(inline_cookie)
            IN  IF inline_cookie # None /\ decoded.kind = "text"
                THEN /\ fs' = write_file(fs, temp_cookie_path, 1)
                     /\ COOKIE_FILE_CACHE' = temp_cookie_path
                     /\ cookie_return(t, temp_cookie_path)
                ELSE /\ threads' = [threads EXCEPT ![t].pc = "file"]
                     /\ UNCHANGED <<fs, COOKIE_FILE_CACHE, cookie_returns>>
    /\ cookie_lookups' = cookie_lookups + 1
    /\ UNCHANGED <<configVars, pipelineVars, environ, dirs, uuids>>

\* app.py:151-157: the cookie file named by YTDL_COOKIES (cookies.txt by
\* default) is cached and returned if it exists; otherwise None is returned
resolve_cookie_file_path ==
    /\ \E t \in Threads :
         /\ threads[t].pc = "file"
         /\ LET cookie_path_ == cookie_path(getenv("YTDL_COOKIES", "cookies.txt"))
            IN  IF cookie_path_ \in DOMAIN fs
                THEN /\ COOKIE_FILE_CACHE' = cookie_path_
                     /\ cookie_return(t, cookie_path_)
                ELSE /\ COOKIE_FILE_CACHE' = COOKIE_FILE_CACHE
                     /\ cookie_return(t, NoPath)
    /\ UNCHANGED <<configVars, pipelineVars, fs, environ, cookie_lookups, dirs, uuids>>

\* the operator of the deployment puts the cookie file in place while the
\* server is running
cookie_file_created ==
    /\ cookie_path(getenv("YTDL_COOKIES", "cookies.txt")) \notin DOMAIN fs
    /\ fs' = write_file(fs, cookie_path(getenv("YTDL_COOKIES", "cookies.txt")), 1)
    /\ UNCHANGED <<configVars, pipelineVars, threadVars>>

\* the server has started with some environment; no cookie file exists yet
InitCookie ==
    /\ FORCED_PROXY = None
    /\ STATIC_PROXY_POOL = <<>>
    /\ ALLOW_DIRECT_CONNECTION = TRUE
    /\ ENABLE_FREE_PROXY_FALLBACK = FALSE
    /\ InitIdle
    /\ COOKIE_FILE_CACHE = NoPath
    /\ environ \in Environs
    /\ threads = [t \in Threads |-> [pc |-> "idle", calls |-> 0]]
    /\ cookie_returns = <<>>
    /\ cookie_lookups = 0
    /\ dirs = {}
    /\ uuids = 0

NextCookie ==
    \/ resolve_cookie_file_begin
    \/ resolve_cookie_file_inline
    \/ resolve_cookie_file_path
    \/ cookie_file_created

SpecCookie == InitCookie /\ [][NextCookie]_vars

(***************************************************************************)
(* download_video and the cleanup of process_video run by concurrent       *)
(* requests, app.py:1040-1087 and 1162-1170                                *)
(***************************************************************************)
\* a file in a directory under tempfile.gettempdir()
DirPath(dir, stem, ext) == [dir |-> dir, stem |-> stem, ext |-> ext]

\* texts of uuid4 values, as many as the requests of the model can draw
UuidTexts ==
    <<"uuid-1", "uuid-2", "uuid-3", "uuid-4", "uuid-5", "uuid-6", "uuid-7", "uuid-8",
      "uuid-9", "uuid-10", "uuid-11", "uuid-12">>

\* a generator that gives the same value again
uuid4_repeated(drawn) == UuidTexts[1]

\* uuid.uuid4() when `drawn` values were drawn before: a value that none of
\* the earlier draws gave (the collision of two random 122-bit values is
\* left out)
uuid4(drawn) == UuidTexts[drawn + 1]

\* the files of directory `dir`
listdir(files, dir) == { f \in DOMAIN files : f.dir = dir }

\* app.py:1042-1043: the call makes its directory yt_dl_<uuid4>
\* (mkdir(exist_ok=True) accepts a directory that exists)
conc_download_video_begin ==
    /\ \E t \in Threads :
         /\ threads[t].pc = "idle"
         /\ threads' = [threads EXCEPT ![t] = [pc |-> "mirror_first",
                                               temp_dir |-> uuid4(uuids),
                                               file_path |-> NoPath]]
         /\ dirs' = dirs \cup {uuid4(uuids)}
    /\ uuids' = uuids + 1
    /\ UNCHANGED <<configVars, pipelineVars, fs, COOKIE_FILE_CACHE, environ,
                   cookie_returns, cookie_lookups>>

\* app.py:1064-1066 and 1083-1087 with 948-993: the mirror has no stream,
\* or the stream is fetched into temp_dir / f"{uuid4()}.{ext}" (for
\* quality best, so without the conversion to mp3); the GET fails before
\* the file is opened, or after, or the file is written
conc_mirror_download_attempt ==
    /\ \E t \in Threads, stream \in {NoDict, InvFormatStream} :
       \E http \in IF stream = NoDict
                   THEN { o \in HttpDownloadOutcomes : o.at = 975 }
                   ELSE { o \in HttpDownloadOutcomes :
                            o.at = 983 \/ (o.at # 975 /\ o.size # 0) } :
         LET temp_file == DirPath(threads[t].temp_dir, uuid4(uuids),
                                  infer_extension(stream, "mp4"))
             got == IF stream = NoDict THEN [files |-> fs, path |-> NoPath]
                    ELSE download_stream_via_requests(fs, stream, temp_file, http)
         IN  /\ threads[t].pc \in {"mirror_first", "mirror_retry"}
             /\ fs' = got.files
             /\ uuids' = IF stream = NoDict THEN uuids ELSE uuids + 1
             /\ threads' = [threads EXCEPT
                    ![t].file_path = got.path,
                    ![t].pc = IF got.path # NoPath \/ threads[t].pc = "mirror_retry"
                              THEN "returned" ELSE "engine_download"]
    /\ UNCHANGED <<configVars, pipelineVars, COOKIE_FILE_CACHE, environ,
                   cookie_returns, cookie_lookups, dirs>>

\* app.py:1068-1080: the engine writes temp_dir / '%(title)s.%(ext)s', or
\* leaves a partial file, or nothing
conc_engine_download_attempt ==
    /\ \E t \in Threads, out \in { o \in EngineDownloadOutcomes :
                     o.written # "mp3" /\ (o.kind = "done" => o.size # 0) } :
         LET written == IF out.written = "" THEN fs
                        ELSE write_file(fs, DirPath(threads[t].temp_dir, "title", out.written),
                                        out.size)
             reported == DirPath(threads[t].temp_dir, "title", out.reported)
         IN  /\ threads[t].pc = "engine_download"
             /\ fs' = written
             /\ threads' = [threads EXCEPT
                    ![t].file_path = IF out.kind = "done" /\ reported \in DOMAIN written
                                     THEN reported ELSE NoPath,
                    ![t].pc = IF out.kind = "done" /\ reported \in DOMAIN written
                              THEN "returned" ELSE "mirror_retry"]
    /\ UNCHANGED <<configVars, pipelineVars, COOKIE_FILE_CACHE, environ,
                   cookie_returns, cookie_lookups, dirs, uuids>>

\* app.py:1155-1176: without a file the request ends with 500; otherwise
\* the file is uploaded, then unlinked, and its parent directory removed
\* (rmdir raises on a directory that is not empty, which is swallowed)
conc_process_video_end ==
    /\ \E t \in Threads :
         /\ threads[t].pc = "returned"
         /\ threads' = [threads EXCEPT ![t].pc = "done"]
         /\ IF threads[t].file_path = NoPath
            THEN UNCHANGED <<fs, dirs>>
            ELSE /\ fs' = unlink(fs, threads[t].file_path)
                 /\ dirs' = IF listdir(fs', threads[t].file_path.dir) = {}
                            THEN dirs \ {threads[t].file_path.dir}
                            ELSE dirs
    /\ UNCHANGED <<configVars, pipelineVars, COOKIE_FILE_CACHE, environ,
                   cookie_returns, cookie_lookups, uuids>>

\* the server is up and no request has arrived
InitConc ==
    /\ FORCED_PROXY = None
    /\ STATIC_PROXY_POOL = <<>>
    /\ ALLOW_DIRECT_CONNECTION = TRUE
    /\ ENABLE_FREE_PROXY_FALLBACK = FALSE
    /\ InitIdle
    /\ COOKIE_FILE_CACHE = NoPath
    /\ environ = <<>>
    /\ threads = [t \in Threads |-> [pc |-> "idle", temp_dir |-> "", file_path |-> NoPath]]
    /\ cookie_returns = <<>>
    /\ cookie_lookups = 0
    /\ dirs = {}
    /\ uuids = 0

NextConc ==
    \/ conc_download_video_begin
    \/ conc_mirror_download_attempt
    \/ conc_engine_download_attempt
    \/ conc_process_video_end

SpecConc == InitConc /\ [][NextConc]_vars

(***************************************************************************)
(* Properties                                                              *)
(***************************************************************************)
Range(seq) == { seq[i] : i \in 1..Len(seq) }

EngineStrategyNames == { strategy_name(i) : i \in 1..NumStrategies }

\* the stage a record says it comes from
stage_of(metadata) ==
    IF "__strategy" \in DOMAIN metadata
    THEN IF metadata["__strategy"] \in EngineStrategyNames THEN "engine"
         ELSE IF metadata["__strategy"] = "youtubei_player" THEN "youtubei"
         ELSE "watch_html"
    ELSE metadata["__source"]

\* the attempt a record says it comes from
attempt_of(metadata) ==
    Attempt(stage_of(metadata),
            IF stage_of(metadata) = "engine" THEN metadata["__strategy"]
            ELSE IF stage_of(metadata) \in {"invidious", "piped"}
            THEN metadata["__mirror_instance"]
            ELSE "",
            IF "__proxy" \in DOMAIN metadata THEN metadata["__proxy"] ELSE None)

\* C1: once an attempt of get_full_video_metadata has succeeded, its record
\* is what is returned and no attempt is made after it: the last attempt of
\* the log is the one that produced the record, the log never grows again,
\* and a record of the engine stage has attempts of the engine stage only
C1_ShortCircuit ==
    /\ [](metadata_context # NoDict =>
            /\ attempts # <<>>
            /\ attempts[Len(attempts)] = attempt_of(metadata_context)
            /\ (stage_of(metadata_context) = "engine" =>
                   \A i \in 1..Len(attempts) : attempts[i].stage = "engine"))
    /\ [][metadata_context # NoDict => attempts' = attempts]_vars

\* C1 witness: an engine attempt succeeded after earlier ones had failed,
\* and the handler went on to answer
C1_Witness ==
    /\ pc = "responded"
    /\ metadata_context # NoDict
    /\ stage_of(metadata_context) = "engine"
    /\ Len(attempts) >= 2

\* C2: get_full_video_metadata never returns, as a success, a record whose
\* title is missing or empty
C2_TitleRequired ==
    (pc = "resolved" /\ metadata_context # NoDict) =>
        Truthy(metadata_context["title"])

\* C3: a request whose quality is neither best nor audio is answered with
\* 400 before the candidate list is built and before any attempt or other
\* network call, on POST /api/process and on POST /api/metadata
C3_QualityRejected ==
    (request # NoDict /\ Get(request.body, "quality", "best") \notin {"best", "audio"}) =>
        /\ pc = "responded"
        /\ response.status = 400
        /\ proxy_candidates = <<>>
        /\ attempts = <<>>
        /\ netCalls = 0

\* C4: a path returned by download_video names a file that exists and is
\* not empty
C4_ReturnedFileNonEmpty ==
    (pc = "download_returned" /\ file_path # NoPath) =>
        /\ file_path \in DOMAIN fs
        /\ fs[file_path] > 0

\* C5: when download_video fails (it returns None, or an exception leaves
\* it), its temporary directory and every file written there are gone
C5_FailureCleansUp ==
    (\/ pc = "download_returned" /\ file_path = NoPath
     \/ pc = "raised" /\ raised_from = "download_video") =>
        /\ temp_dir = "absent"
        /\ DOMAIN fs = {}

\* the internal-only fields: producing strategy and source, proxy used,
\* mirror instance, mirror type, raw stream bag, raw player response
InternalOnlyFields ==
    {"__strategy", "__source", "__proxy", "__mirror_instance", "__mirror_type",
     "__mirror_streams", "__player_response"}

\* C6: no response of POST /api/metadata or POST /api/process carries an
\* internal-only field in its metadata
C6_NoInternalFieldInResponse ==
    (response # NoDict /\ "metadata" \in DOMAIN response.body) =>
        DOMAIN response.body["metadata"] \cap InternalOnlyFields = {}

\* C6 witness: the download-failed response of POST /api/process for a
\* record of a Piped mirror, which holds fields of every internal kind
C6_Witness ==
    /\ pc = "responded"
    /\ request.endpoint = "/api/process"
    /\ response.status = 500
    /\ "metadata" \in DOMAIN response.body
    /\ "title" \in DOMAIN response.body["metadata"]
    /\ "__mirror_instance" \in DOMAIN metadata_context
    /\ "__mirror_streams" \in DOMAIN metadata_context

\* C8: no exception of a collaborator leaves get_full_video_metadata (nor
\* _build_proxy_candidates, which it calls)
C8_NoExceptionEscapes ==
    raised_from \notin {"get_full_video_metadata", "_build_proxy_candidates"}

\* C8 witness: the last attempt of the chain raised, and the call returned
\* the failure value
C8_Witness ==
    /\ pc = "resolved"
    /\ metadata_context = NoDict
    /\ last_outcome.kind = "raise"
    /\ attempts # <<>>
    /\ attempts[Len(attempts)].stage = "piped"

\* the attempts of the whole chain for the candidates of the call
EngineAttempts ==
    { Attempt("engine", n, p) : n \in EngineStrategyNames, p \in Range(proxy_candidates) }
LaterAttempts ==
    { Attempt(stage, "", p) : stage \in {"youtubei", "watch_html"},
                              p \in Range(proxy_candidates) } \cup
    { Attempt("invidious", inst, p) : inst \in Range(INVIDIOUS_INSTANCES),
                                      p \in Range(proxy_candidates) } \cup
    { Attempt("piped", inst, None) : inst \in Range(PIPED_API_INSTANCES) }

\* C9: for a URL that names a video, get_full_video_metadata ends without
\* having made every attempt of every stage only by returning a record
\* with a title: it returns failure only after the whole chain, and a
\* title-less result does not end the chain early
C9_FailureOnlyAfterWholeChain ==
    (/\ pc = "resolved"
     /\ Truthy(extract_video_id(url_of(request)))
     /\ ~Truthy(Get(metadata_context, "title", None))) =>
        (EngineAttempts \cup LaterAttempts) \subseteq Range(attempts)

\* the streams of a list that have a URL
usable(lst) == { lst[i] : i \in { j \in 1..Len(lst) : Truthy(Get(lst[j], "url", None)) } }

C11_AudioHighestBitrate ==
    LET bitrate(s) ==
            LET b == Get(s, "bitrate", PyNone)
            IN  IF b.t = "int" THEN b.v
                ELSE IF b.t = "str" THEN int_of(b.v)
                ELSE 0
        numeric(s) ==
            LET b == Get(s, "bitrate", PyNone)
            IN  b.t = "str" => (b.v # <<>> /\ \A k \in 1..Len(b.v) : b.v[k] \in Digits)
        bag == metadata_context["__mirror_streams"]
        supplied ==
            IF metadata_context["__mirror_type"] = "piped"
            THEN usable(bag.audioStreams)
            ELSE { s \in usable(bag.adaptiveFormats) \cup usable(bag.formatStreams) :
                     is_audio(s) }
    IN  (/\ pc = "select"
         /\ quality_of(request) = "audio"
         /\ "__mirror_type" \in DOMAIN metadata_context
         /\ \A s \in supplied : numeric(s)) =>
            \A i \in 1..Len(selections) :
                (selections[i].kind = "return" /\ selections[i].stream # NoDict) =>
                    \A s \in supplied : bitrate(s) <= bitrate(selections[i].stream)

\* C12: when POST /api/process has resolved the metadata and download_video
\* then fails in any way (it returns None, or an exception leaves it), the
\* response has status 500, success false, and carries the public metadata
C12_DownloadFailureCarriesMetadata ==
    (/\ pc = "responded"
     /\ request.endpoint = "/api/process"
     /\ metadata_context # NoDict
     /\ download_attempts # <<>>
     /\ file_path = NoPath) =>
        /\ response.status = 500
        /\ response.body["success"] = FALSE
        /\ "metadata" \in DOMAIN response.body
        /\ response.body["metadata"] = public_metadata(metadata_context)

\* C13: for quality audio, when download_video has obtained a media file
\* (a whole, non-empty file in another container than mp3 is in its
\* directory, from the mirror or from the engine) and the conversion to
\* mp3 did not succeed, download_video still returns a file, and that file
\* is the one obtained
C13_TranscodeFailureKeepsFile ==
    LET obtained == { p \in DOMAIN fs : p.ext \notin {"mp3", "part"} /\ fs[p] > 0 }
    IN  (/\ pc = "download_returned"
         /\ quality_of(request) = "audio"
         /\ obtained # {}) =>
            file_path \in obtained

\* C14: POST /api/download of youtube_api.py, for a valid URL and quality
\* best or audio: when the information was extracted and the engine's
\* download, post-processing included, finished without error, the
\* response has status 200 and carries a file that the download produced
C14_CompletedDownloadIsSent ==
    (/\ pc = "responded"
     /\ request.endpoint = "/api/download"
     /\ last_outcome.kind = "done") =>
        /\ response.status = 200
        /\ "file" \in DOMAIN response.body
        /\ response.body["file"] \in DOMAIN fs

\* C15: the list returned by _build_proxy_candidates is in priority order:
\* the forced proxy, then the entries of the static pool in configured
\* order, then the direct connection, then the free proxy.  Of two entries
\* of the result the one of the earlier class (for a value of several
\* classes: its earliest class) comes first.
C15_CandidatesInPriorityOrder ==
    LET inPool(x) == \E k \in 1..Len(STATIC_PROXY_POOL) : STATIC_PROXY_POOL[k] = x
        rank(x) ==
            IF Truthy(FORCED_PROXY) /\ x = FORCED_PROXY THEN 0
            ELSE IF inPool(x)
            THEN CHOOSE k \in 1..Len(STATIC_PROXY_POOL) :
                    /\ STATIC_PROXY_POOL[k] = x
                    /\ \A l \in 1..(k - 1) : STATIC_PROXY_POOL[l] # x
            ELSE IF x = None THEN Len(STATIC_PROXY_POOL) + 1
            ELSE Len(STATIC_PROXY_POOL) + 2
    IN  pc = "built" =>
            \A i, j \in 1..Len(proxy_candidates) :
                i < j => rank(proxy_candidates[i]) < rank(proxy_candidates[j])

\* C15 witness: a returned list that starts with the forced proxy, holds a
\* pool entry, the direct connection and the free proxy, while a value
\* that occurred in two classes was dropped at its later occurrence
C15_Witness ==
    /\ pc = "built"
    /\ Len(proxy_candidates) >= 4
    /\ Len(candidates) > Len(proxy_candidates)
    /\ proxy_candidates[1] = FORCED_PROXY
    /\ \E i \in 2..(Len(proxy_candidates) - 1) : proxy_candidates[i] = None
    /\ proxy_candidates[Len(proxy_candidates)] # None

\* C16: each representation of 5 March 2024 ("2024-03-05", "2024/03/05",
\* the epoch seconds 1709625600, "20240305") is normalized to "20240305",
\* whichever normalizer receives it: _format_upload_date (the published
\* field of Invidious), _normalize_simple_date or _format_upload_date (the
\* uploadDate field of Piped) or _normalize_iso_date (the uploadDate field
\* of the player response)
C16_SameDaySameDate ==
    LET representations ==
            { PyInt(1709625600),
              PyStr(<<"2", "0", "2", "4", "-", "0", "3", "-", "0", "5">>),
              PyStr(<<"2", "0", "2", "4", "/", "0", "3", "/", "0", "5">>),
              PyStr(<<"2", "0", "2", "4", "0", "3", "0", "5">>) }
        raw == last_outcome.data
        received ==
            IF caller = "_map_invidious_metadata" THEN raw["published"]
            ELSE IF caller = "_map_piped_metadata" THEN raw["uploadDate"]
            ELSE raw["microformat"]["playerMicroformatRenderer"]["uploadDate"]
    IN  (/\ pc = "mapped"
         /\ caller # "engine"
         /\ received \in representations) =>
            metadata_context["upload_date"] = PyStr(<<"2", "0", "2", "4", "0", "3", "0", "5">>)

\* C17: in every record produced by a per-source mapping (Invidious, Piped,
\* player response, engine), upload_date and release_date are each None or
\* a str of exactly 8 digits
C17_DatesNullOrEightDigits ==
    LET eight_digits(x) == x.t = "str" /\ Len(x.v) = 8 /\ isdigit(x.v)
    IN  (pc = "mapped" /\ metadata_context # NoDict) =>
            \A field \in {"upload_date", "release_date"} :
                \/ metadata_context[field] = PyNone
                \/ eight_digits(metadata_context[field])

C19_RecordNamesItsOrigin ==
    (pc = "resolved" /\ metadata_context # NoDict) =>
        /\ \E key \in {"__strategy", "__source"} :
              /\ key \in DOMAIN metadata_context
              /\ Truthy(metadata_context[key])
        /\ "__proxy" \in DOMAIN metadata_context
        /\ "__mirror_type" \in DOMAIN metadata_context =>
              /\ "__mirror_instance" \in DOMAIN metadata_context
              /\ Truthy(metadata_context["__mirror_instance"])

C21_MirrorEngineMirror ==
    /\ [](\E n \in 0..3 : download_attempts = SubSeq(<<"mirror", "engine", "mirror">>, 1, n))
    /\ [][download_attempts' # download_attempts =>
             /\ file_path = NoPath
             /\ file_path' # NoPath => pc' = "download_returned"]_vars

\* C21 witness: a call has returned after the mirror attempt, the engine
\* attempt and the second mirror attempt, the last one giving the file
C21_Witness ==
    /\ pc = "download_returned"
    /\ download_attempts = <<"mirror", "engine", "mirror">>
    /\ file_path # NoPath

\* C22: for a record of the Invidious shape and quality best, a call of
\* _select_mirror_stream that returns a descriptor returns an element of
\* the format list that has a URL and is not classified as audio, and no
\* such element has a higher quality score; when the format list has no
\* such element the call returns None, with or without adaptive video
\* streams in the bag
C22_BestIsProgressive ==
    LET bag == metadata_context["__mirror_streams"]
        invidious_shape ==
            IF "__mirror_type" \in DOMAIN metadata_context
            THEN metadata_context["__mirror_type"] = "invidious"
            ELSE "videoStreams" \notin DOMAIN bag
        audio_classified(s) ==
            (IF Get(s, "mimeType", None) # None THEN s["mimeType"]
             ELSE Get(s, "type", "")) \in {"audio/mp4", "audio/webm"}
        progressive == { s \in usable(bag.formatStreams) : ~audio_classified(s) }
    IN  (pc = "select" /\ quality_of(request) = "best" /\ invidious_shape) =>
            \A n \in 1..Len(selections) :
                /\ selections[n].kind = "return"
                /\ progressive = {} => selections[n].stream = NoDict
                /\ selections[n].stream # NoDict =>
                       /\ selections[n].stream \in progressive
                       /\ \A s \in progressive :
                              quality_score(s) <= quality_score(selections[n].stream)

\* C22 witness: quality best on an Invidious bag without a progressive
\* stream but with an adaptive video stream: the call returned None
C22_Witness ==
    /\ pc = "select"
    /\ quality_of(request) = "best"
    /\ "__mirror_type" \in DOMAIN metadata_context
    /\ metadata_context["__mirror_type"] = "invidious"
    /\ Len(selections) >= 1
    /\ selections[1] = ReturnedNone
    /\ \E s \in usable(metadata_context["__mirror_streams"].adaptiveFormats) :
         s["type"] = "video/mp4"

\* C23: for a record of the Piped shape and quality best, when a video
\* stream with a URL is muxed (not video-only) a call of
\* _select_mirror_stream returns a muxed stream, no muxed stream has a
\* higher quality score, nor the same score and a greater height; a
\* video-only stream is returned only when no muxed stream has a URL
C23_BestPrefersMuxed ==
    LET bag == metadata_context["__mirror_streams"]
        muxed == { s \in usable(bag.videoStreams) : Get(s, "videoOnly", FALSE) = FALSE }
        height(s) == IF Get(s, "height", PyNone) = PyNone THEN 0 ELSE s["height"].v
        score(s) == score_quality(Get(s, "quality", PyNone), Get(s, "height", PyNone))
        tagged(s) == ("__mirror_type" :> "piped") @@ s
    IN  (/\ pc = "select"
         /\ quality_of(request) = "best"
         /\ "__mirror_type" \in DOMAIN metadata_context
         /\ metadata_context["__mirror_type"] = "piped") =>
            \A n \in 1..Len(selections) :
                /\ selections[n].kind = "return"
                /\ muxed # {} =>
                       \E s \in muxed :
                           /\ selections[n].stream = tagged(s)
                           /\ \A t \in muxed :
                                  \/ score(t) < score(s)
                                  \/ score(t) = score(s) /\ height(t) <= height(s)
                /\ (selections[n].stream # NoDict /\ Get(selections[n].stream, "videoOnly", FALSE) = TRUE)
                       => muxed = {}

\* C23 witness: quality best on a Piped bag whose first video stream is
\* video-only and whose second is muxed: the call returned the muxed one
C23_Witness ==
    /\ pc = "select"
    /\ quality_of(request) = "best"
    /\ "__mirror_type" \in DOMAIN metadata_context
    /\ metadata_context["__mirror_type"] = "piped"
    /\ Len(selections) >= 1
    /\ Len(metadata_context["__mirror_streams"].videoStreams) = 2
    /\ metadata_context["__mirror_streams"].videoStreams[1]["videoOnly"] = TRUE
    /\ selections[1].stream =
           ("__mirror_type" :> "piped") @@ metadata_context["__mirror_streams"].videoStreams[2]

\* C24: when the GET of _download_stream_via_requests fails (the request
\* raises, raise_for_status raises on an HTTP error status, or an
\* exception is raised after the file was opened, while or after chunks
\* were written), then after the attempt no file of the attempt's temporary
\* name exists, the attempt has given no path, and download_video goes on
\* with its next step (the engine after the first mirror attempt, the final
\* return of None after the second)
C24_FailedStreamDownloadLeavesNoFile ==
    [][(/\ pc \in {"mirror_first", "mirror_retry"}
        /\ download_attempts' # download_attempts
        /\ last_outcome'.kind = "raise") =>
           /\ \A f \in DOMAIN fs' :
                  f.stem # (IF pc = "mirror_first" THEN "uuid-1" ELSE "uuid-2")
           /\ file_path' = NoPath
           /\ pc' = (IF pc = "mirror_first" THEN "engine_download"
                     ELSE "download_returned")]_vars

\* C24 witness: the first mirror attempt failed after the file was opened,
\* and the engine download is next
C24_Witness ==
    /\ pc = "engine_download"
    /\ download_attempts = <<"mirror">>
    /\ last_outcome = [kind |-> "raise", at |-> 985]
    /\ file_path = NoPath

\* C25: no call of _build_proxy_candidates ends with an exception of the
\* free-proxy lookup; when the lookup ends without a proxy (every source
\* raised, answered with a status other than 200 or listed no valid entry)
\* the returned list is the list that is returned with the free-proxy
\* fallback disabled; and a returned list holds at most one entry that the
\* forced proxy, the static pool and the direct sentinel did not contribute
C25_FreeProxyLookupNeverFails ==
    /\ [](/\ raised_from # "_build_proxy_candidates"
          /\ pc # "raised"
          /\ Cardinality({ i \in 1..Len(proxy_candidates) :
                 proxy_candidates[i] \notin
                     Range(static_candidates(FORCED_PROXY, STATIC_PROXY_POOL,
                                             include_direct, ALLOW_DIRECT_CONNECTION)) }) <= 1)
    /\ [][(pc = "get_free_proxy" /\ pc' = "built" /\ candidates' = candidates) =>
              proxy_candidates' =
                  filtered_or_direct(static_candidates(FORCED_PROXY, STATIC_PROXY_POOL,
                                                       include_direct,
                                                       ALLOW_DIRECT_CONNECTION))]_vars

\* C25 witness: a list was returned after the last free-proxy source raised
C25_Witness ==
    /\ pc = "built"
    /\ ENABLE_FREE_PROXY_FALLBACK
    /\ last_outcome = [kind |-> "raise", at |-> 164]
    /\ netCalls = NumFreeProxySources

ChainAttemptsUseProxy ==
    (~ALLOW_DIRECT_CONNECTION /\ \E i \in 1..Len(proxy_candidates) : proxy_candidates[i] # None) =>
        \A n \in 1..Len(attempts) :
            attempts[n].stage # "piped" => attempts[n].proxy # None

\* C29: an engine attempt made for a candidate of the list goes out with
\* that candidate as its proxy (no proxy for the direct candidate), and the
\* record returned by the engine stage has that proxy as its __proxy
C29_RecordedProxyIsUsedProxy ==
    (/\ attempts # <<>>
     /\ attempts[Len(attempts)].stage = "engine"
     /\ "via" \in DOMAIN last_outcome) =>
        /\ last_outcome.via = attempts[Len(attempts)].proxy
        /\ (pc = "resolved" /\ metadata_context # NoDict) =>
               metadata_context["__proxy"] = last_outcome.via

\* POST /api/metadata on its own: the handler and get_full_video_metadata
NextResolve ==
    \/ get_metadata_begin
    \/ get_free_proxy_miss
    \/ get_free_proxy_hit
    \/ engine_attempt
    \/ fetcher_begin
    \/ youtubei_attempt
    \/ watch_html_attempt
    \/ invidious_attempt
    \/ piped_attempt
    \/ get_metadata_end

\* the handler runs on: a step that can be taken is taken, since every
\* network call has a timeout (app.py:164, 176, 472, 509, 558, 615) and so
\* returns or raises
SpecResolve == Init /\ [][NextResolve]_vars /\ WF_vars(NextResolve)

\* C28: a call of get_full_video_metadata ends, with a record or with the
\* failure value; it makes at most 4N + N + N + I*N + P attempts (N
\* candidates, I Invidious and P Piped instances); no Invidious instance
\* is attempted twice through the same candidate and no Piped instance
\* twice; and the shuffled list of a mirror stage is a permutation of the
\* configured list
C28_ChainTerminatesWithinBound ==
    /\ [](/\ Len(attempts) <= 4 * Len(proxy_candidates) + Len(proxy_candidates)
                              + Len(proxy_candidates)
                              + Len(INVIDIOUS_INSTANCES) * Len(proxy_candidates)
                              + Len(PIPED_API_INSTANCES)
          /\ \A m, n \in 1..Len(attempts) :
                 (m # n /\ attempts[m].stage \in {"invidious", "piped"}) =>
                     attempts[m] # attempts[n]
          /\ pc = "invidious" =>
                 /\ Len(instances) = Len(INVIDIOUS_INSTANCES)
                 /\ Range(instances) = Range(INVIDIOUS_INSTANCES)
          /\ pc = "piped" =>
                 /\ Len(instances) = Len(PIPED_API_INSTANCES)
                 /\ Range(instances) = Range(PIPED_API_INSTANCES))
    /\ (pc \in {"get_free_proxy", "engine"}) ~> (pc = "resolved")

\* C28 witness: the chain was exhausted after the greatest number of
\* attempts, with two proxy candidates
C28_Witness ==
    /\ pc = "resolved"
    /\ metadata_context = NoDict
    /\ Len(proxy_candidates) = 2
    /\ Len(attempts) = 6 * Len(proxy_candidates)
                       + Len(INVIDIOUS_INSTANCES) * Len(proxy_candidates)
                       + Len(PIPED_API_INSTANCES)

\* C27: the cookie file is resolved at most once per process: at most one
\* call of _resolve_cookie_file reads the environment and the file system,
\* and all calls return the same value, None included
C27_CookieResolvedOnce ==
    /\ cookie_lookups <= 1
    /\ \A m, n \in 1..Len(cookie_returns) : cookie_returns[m] = cookie_returns[n]

====
